---- MODULE Spec2Model ----
(***************************************************************************)
(* Grant-Writer-Agent: the foundation crawl and structured-extraction      *)
(* pipeline (grant-data-collector.py, organisation-data-collector.py), the *)
(* services that wrap it and the complete-pipeline controller.             *)
(*                                                                         *)
(* Text is modelled character by character: a Python str is a sequence of  *)
(* one-character strings.  A model reply is a sequence of tokens; a token  *)
(* is either one raw character or one JSON string literal (the quote, its  *)
(* characters, the closing quote), which no strip() can cut through.       *)
(***************************************************************************)
EXTENDS Integers, Sequences, FiniteSets, TLC

(***************************************************************************)
(* Bounds of the model.                                                    *)
(***************************************************************************)
MaxAnchors == 2

\* the largest max_attempts a URL finder agent is built with
MaxAttempts == 2

(***************************************************************************)
(* Python str operations used by the collectors.                           *)
(***************************************************************************)
UpperLetters ==
  <<"A","B","C","D","E","F","G","H","I","J","K","L","M",
    "N","O","P","Q","R","S","T","U","V","W","X","Y","Z">>

LowerLetters ==
  <<"a","b","c","d","e","f","g","h","i","j","k","l","m",
    "n","o","p","q","r","s","t","u","v","w","x","y","z">>

Whitespace == {" ", "\n", "\t", "\r"}

LowerChar(c) ==
  IF \E i \in 1..Len(UpperLetters) : UpperLetters[i] = c
  THEN LowerLetters[CHOOSE i \in 1..Len(UpperLetters) : UpperLetters[i] = c]
  ELSE c

\* str.lower()
str_lower(s) == [i \in 1..Len(s) |-> LowerChar(s[i])]

\* str.startswith(prefix)
str_startswith(s, prefix) ==
  Len(s) >= Len(prefix) /\ SubSeq(s, 1, Len(prefix)) = prefix

\* sub in s
str_contains(s, sub) ==
  \E i \in 0..(Len(s) - Len(sub)) : SubSeq(s, i + 1, i + Len(sub)) = sub

\* number of leading / trailing items of s that lie in chars
LeadingIn(s, chars) ==
  CHOOSE n \in 0..Len(s) :
    /\ \A i \in 1..n : s[i] \in chars
    /\ (n = Len(s) \/ s[n + 1] \notin chars)

TrailingIn(s, chars) ==
  CHOOSE n \in 0..Len(s) :
    /\ \A i \in (Len(s) - n + 1)..Len(s) : s[i] \in chars
    /\ (n = Len(s) \/ s[Len(s) - n] \notin chars)

\* str.rstrip(chars)
str_rstrip(s, chars) == SubSeq(s, 1, Len(s) - TrailingIn(s, chars))

\* str.strip(chars)
str_strip(s, chars) ==
  LET r == str_rstrip(s, chars)
  IN  SubSeq(r, LeadingIn(r, chars) + 1, Len(r))

Range(s) == {s[i] : i \in 1..Len(s)}

\* Optional values: None is the empty sequence, a value x is <<x>>.
None == <<>>
Some(x) == <<x>>

(***************************************************************************)
(* The strings of a run.  A state holds a str as a TLA+ string; its        *)
(* characters are looked up here whenever the code looks inside it, and a  *)
(* str the code builds is found back by its characters.                    *)
(***************************************************************************)
StringTable ==
  << <<"", <<>>>>,
     <<"Not specified", <<"N","o","t"," ","s","p","e","c","i","f","i","e","d">>>>,
     <<"http://r/", <<"h","t","t","p",":","/","/","r","/">>>>,
     <<"http://r/about", <<"h","t","t","p",":","/","/","r","/","a","b","o","u","t">>>>,
     <<"HTTP://r", <<"H","T","T","P",":","/","/","r">>>>,
     <<"/about", <<"/","a","b","o","u","t">>>>,
     <<"Apply", <<"A","p","p","l","y">>>>,
     <<"/contact", <<"/","c","o","n","t","a","c","t">>>>,
     <<"#top", <<"#","t","o","p">>>>,
     <<"http://r//about", <<"h","t","t","p",":","/","/","r","/","/","a","b","o","u","t">>>>,
     <<"http://r///about", <<"h","t","t","p",":","/","/","r","/","/","/","a","b","o","u","t">>>>,
     <<"http://rhttp://r/about", <<"h","t","t","p",":","/","/","r","h","t","t","p",":","/","/","r","/","a","b","o","u","t">>>>,
     <<"http://r/http://r/about", <<"h","t","t","p",":","/","/","r","/","h","t","t","p",":","/","/","r","/","a","b","o","u","t">>>>,
     <<"http://r//http://r/about", <<"h","t","t","p",":","/","/","r","/","/","h","t","t","p",":","/","/","r","/","a","b","o","u","t">>>>,
     <<"http://rApply", <<"h","t","t","p",":","/","/","r","A","p","p","l","y">>>>,
     <<"http://r/Apply", <<"h","t","t","p",":","/","/","r","/","A","p","p","l","y">>>>,
     <<"http://r//Apply", <<"h","t","t","p",":","/","/","r","/","/","A","p","p","l","y">>>>,
     <<"http://r/contact", <<"h","t","t","p",":","/","/","r","/","c","o","n","t","a","c","t">>>>,
     <<"http://r//contact", <<"h","t","t","p",":","/","/","r","/","/","c","o","n","t","a","c","t">>>>,
     <<"http://r///contact", <<"h","t","t","p",":","/","/","r","/","/","/","c","o","n","t","a","c","t">>>>,
     <<"http://r#top", <<"h","t","t","p",":","/","/","r","#","t","o","p">>>>,
     <<"http://r/#top", <<"h","t","t","p",":","/","/","r","/","#","t","o","p">>>>,
     <<"http://r//#top", <<"h","t","t","p",":","/","/","r","/","/","#","t","o","p">>>>,
     <<"http://r/about/about", <<"h","t","t","p",":","/","/","r","/","a","b","o","u","t","/","a","b","o","u","t">>>>,
     <<"http://r/about//about", <<"h","t","t","p",":","/","/","r","/","a","b","o","u","t","/","/","a","b","o","u","t">>>>,
     <<"http://r/abouthttp://r/about", <<"h","t","t","p",":","/","/","r","/","a","b","o","u","t","h","t","t","p",":","/","/","r","/","a","b","o","u","t">>>>,
     <<"http://r/about/http://r/about", <<"h","t","t","p",":","/","/","r","/","a","b","o","u","t","/","h","t","t","p",":","/","/","r","/","a","b","o","u","t">>>>,
     <<"http://r/aboutApply", <<"h","t","t","p",":","/","/","r","/","a","b","o","u","t","A","p","p","l","y">>>>,
     <<"http://r/about/Apply", <<"h","t","t","p",":","/","/","r","/","a","b","o","u","t","/","A","p","p","l","y">>>>,
     <<"http://r/about/contact", <<"h","t","t","p",":","/","/","r","/","a","b","o","u","t","/","c","o","n","t","a","c","t">>>>,
     <<"http://r/about//contact", <<"h","t","t","p",":","/","/","r","/","a","b","o","u","t","/","/","c","o","n","t","a","c","t">>>>,
     <<"http://r/about#top", <<"h","t","t","p",":","/","/","r","/","a","b","o","u","t","#","t","o","p">>>>,
     <<"http://r/about/#top", <<"h","t","t","p",":","/","/","r","/","a","b","o","u","t","/","#","t","o","p">>>>,
     <<"HTTP://r/about", <<"H","T","T","P",":","/","/","r","/","a","b","o","u","t">>>>,
     <<"HTTP://r//about", <<"H","T","T","P",":","/","/","r","/","/","a","b","o","u","t">>>>,
     <<"HTTP://rhttp://r/about", <<"H","T","T","P",":","/","/","r","h","t","t","p",":","/","/","r","/","a","b","o","u","t">>>>,
     <<"HTTP://r/http://r/about", <<"H","T","T","P",":","/","/","r","/","h","t","t","p",":","/","/","r","/","a","b","o","u","t">>>>,
     <<"HTTP://rApply", <<"H","T","T","P",":","/","/","r","A","p","p","l","y">>>>,
     <<"HTTP://r/Apply", <<"H","T","T","P",":","/","/","r","/","A","p","p","l","y">>>>,
     <<"HTTP://r/contact", <<"H","T","T","P",":","/","/","r","/","c","o","n","t","a","c","t">>>>,
     <<"HTTP://r//contact", <<"H","T","T","P",":","/","/","r","/","/","c","o","n","t","a","c","t">>>>,
     <<"HTTP://r#top", <<"H","T","T","P",":","/","/","r","#","t","o","p">>>>,
     <<"HTTP://r/#top", <<"H","T","T","P",":","/","/","r","/","#","t","o","p">>>>,
     <<"G", <<"G">>>>,
     <<" ", <<" ">>>>,
     <<"Closed", <<"C","l","o","s","e","d">>>>,
     <<"June 1", <<"J","u","n","e"," ","1">>>>,
     <<"O", <<"O">>>>,
     <<"T", <<"T">>>>,
     <<"<p>", <<"<","p",">">>>>,
     <<"text", <<"t","e","x","t">>>>,
     <<" desc\n", <<" ","d","e","s","c","\n">>>>,
     <<"https://f.org", <<"h","t","t","p","s",":","/","/","f",".","o","r","g">>>>,
     <<"http://a.org", <<"h","t","t","p",":","/","/","a",".","o","r","g">>>>,
     <<"f.org", <<"f",".","o","r","g">>>>,
     <<"www.f.org", <<"w","w","w",".","f",".","o","r","g">>>>,
     <<"https://www.f.org", <<"h","t","t","p","s",":","/","/","w","w","w",".","f",".","o","r","g">>>>,
     <<"Grants", <<"G","r","a","n","t","s">>>>,
     <<"FOUNDATION", <<"F","O","U","N","D","A","T","I","O","N">>>>,
     <<"news", <<"n","e","w","s">>>>,
     <<"Agent error: expected string or bytes-like object", <<"A","g","e","n","t"," ","e","r","r","o","r",":"," ","e","x","p","e","c","t","e","d"," ","s","t","r","i","n","g"," ","o","r"," ","b","y","t","e","s","-","l","i","k","e"," ","o","b","j","e","c","t">>>>,
     <<"Search error: timed out", <<"S","e","a","r","c","h"," ","e","r","r","o","r",":"," ","t","i","m","e","d"," ","o","u","t">>>>,
     <<"Expired", <<"E","x","p","i","r","e","d">>>>,
     <<"Past due", <<"P","a","s","t"," ","d","u","e">>>>,
     <<"Deadline passed", <<"D","e","a","d","l","i","n","e"," ","p","a","s","s","e","d">>>>,
     <<"n/a", <<"n","/","a">>>>,
     <<"Rolling", <<"R","o","l","l","i","n","g">>>>,
     <<"http://m", <<"h","t","t","p",":","/","/","m">>>>,
     <<"desc", <<"d","e","s","c">>>> >>

StringPool == {StringTable[i][1] : i \in 1..Len(StringTable)}

CharsOf ==
  [s \in StringPool |->
     StringTable[CHOOSE i \in 1..Len(StringTable) : StringTable[i][1] = s][2]]

\* the characters of a str
Chars(s) == CharsOf[s]

\* the str with the given characters
Intern(chars) == CHOOSE s \in StringPool : CharsOf[s] = chars

(***************************************************************************)
(* Constants of the collectors.                                            *)
(***************************************************************************)
NotSpecified == "Not specified"

Closed == <<"c","l","o","s","e","d">>

Http == <<"h","t","t","p">>

Slash == <<"/">>

GrantKeywords ==
  << <<"g","r","a","n","t">>,
     <<"a","p","p","l","y">>,
     <<"f","u","n","d">>,
     <<"f","e","l","l","o","w","s","h","i","p">>,
     <<"o","p","p","o","r","t","u","n","i","t","y">>,
     <<"s","c","h","o","l","a","r","s","h","i","p">>,
     <<"a","w","a","r","d">>,
     <<"f","u","n","d","i","n","g">>,
     <<"f","a","q">>,
     <<"e","l","i","g","i","b","i","l","i","t","y">>,
     <<"c","r","i","t","e","r","i","a">>,
     <<"h","o","w","-","t","o","-","a","p","p","l","y">>,
     <<"g","u","i","d","e","l","i","n","e","s">>,
     <<"a","b","o","u","t">>,
     <<"p","r","o","g","r","a","m","s">> >>

OrgKeywords ==
  << <<"h","o","m","e">>,
     <<"a","b","o","u","t">>,
     <<"f","a","q">>,
     <<"c","o","n","t","a","c","t">>,
     <<"r","e","a","c","h">>,
     <<"m","i","s","s","i","o","n">>,
     <<"v","i","s","i","o","n">>,
     <<"h","i","s","t","o","r","y">>,
     <<"b","a","c","k","g","r","o","u","n","d">>,
     <<"t","e","a","m">>,
     <<"s","t","a","f","f">>,
     <<"b","o","a","r","d">>,
     <<"l","e","a","d","e","r","s","h","i","p">>,
     <<"w","h","o","-","w","e","-","a","r","e">>,
     <<"o","u","r","-","s","t","o","r","y">>,
     <<"g","e","t","-","i","n","-","t","o","u","c","h">>,
     <<"r","e","a","c","h","-","u","s">>,
     <<"c","o","n","t","a","c","t","-","u","s">>,
     <<"a","b","o","u","t","-","u","s">>,
     <<"m","i","s","s","i","o","n">>,
     <<"o","u","r","-","v","i","s","i","o","n">>,
     <<"w","h","a","t","-","w","e","-","d","o">>,
     <<"h","e","l","p">>,
     <<"s","u","p","p","o","r","t">> >>

\* class Grant(BaseModel): every field with its default
GrantDefault ==
  [ grant_name          |-> NotSpecified,
    funding_priorities  |-> NotSpecified,
    types_of_grant      |-> NotSpecified,
    eligibility_criteria |-> NotSpecified,
    eligible_applicants |-> <<>>,
    eligible_locations  |-> NotSpecified,
    grant_amount_range  |-> NotSpecified,
    grant_amount        |-> NotSpecified,
    proposal_deadline   |-> NotSpecified,
    recurrence          |-> NotSpecified,
    contact_info        |-> [email |-> NotSpecified, phone |-> NotSpecified,
                             address |-> NotSpecified],
    organization_info   |-> NotSpecified,
    grant_summary       |-> NotSpecified,
    grant_url           |-> NotSpecified ]

\* the str-typed fields of Grant, as JSON keys
GrantStrFields ==
  { "grant_name", "funding_priorities", "types_of_grant",
    "eligibility_criteria", "eligible_locations", "grant_amount_range",
    "grant_amount", "proposal_deadline", "recurrence", "organization_info",
    "grant_summary", "grant_url" }

\* the list- and dict-typed fields of Grant, as JSON keys
GrantStructFields == { "eligible_applicants", "contact_info" }

(***************************************************************************)
(* scrape_site: link discovery on the root page.                           *)
(***************************************************************************)
\* any(x in l.lower() for x in [keywords])
MatchesKeyword(l, keywords) ==
  \E k \in 1..Len(keywords) : str_contains(str_lower(Chars(l)), keywords[k])

\* FixRelative that treats every relative href like one with a leading slash
FixRelative_NoSeparator(url, l) ==
  IF ~str_startswith(Chars(l), Http)
  THEN Intern(str_rstrip(Chars(url), {"/"}) \o Chars(l))
  ELSE l

\* the "Fix relative URLs" branches
FixRelative(url, l) ==
  IF str_startswith(Chars(l), Slash)
  THEN Intern(str_rstrip(Chars(url), {"/"}) \o Chars(l))
  ELSE IF ~str_startswith(Chars(l), Http)
  THEN Intern((str_rstrip(Chars(url), {"/"}) \o Slash) \o Chars(l))
  ELSE l

\* grant_links.append(l) for every href kept by the keyword test
FixAll(url, kept) == [i \in 1..Len(kept) |-> FixRelative(url, kept[i])]

\* FilterLinks that applies the keyword test to the fixed form of the href
FilterLinks_TestFixed(url, links, keywords) ==
  SelectSeq(FixAll(url, links), LAMBDA l : MatchesKeyword(l, keywords))

\* the filter loop: the fixed form of every keyword-matching href, in order
FilterLinks(url, links, keywords) ==
  FixAll(url, SelectSeq(links, LAMBDA l : MatchesKeyword(l, keywords)))

\* IncludeMain that never adds the main URL
IncludeMain_Never(url, found) == found

\* "Always include the main URL"
IncludeMain(url, found) ==
  IF url \notin Range(found) THEN Append(found, url) ELSE found

\* list(found): no duplicate is removed
ListOfSet_Keep(found) == {found}

\* list(set(found)): the distinct items in an order the hash seed decides
ListOfSet(found) ==
  LET S == Range(found)
  IN  { p \in [1..Cardinality(S) -> S] : Range(p) = S }

\* the lists scrape_site(url) of the grant collector can return when the
\* root page carries the anchors links
scrape_site(url, links) ==
  ListOfSet(IncludeMain(url, FilterLinks(url, links, GrantKeywords)))

\* the same function of the organisation collector
org_scrape_site(url, links) ==
  ListOfSet(IncludeMain(url, FilterLinks(url, links, OrgKeywords)))

(***************************************************************************)
(* Model replies and their JSON reading.                                   *)
(***************************************************************************)
\* one token per raw character
Raw(chars) == [i \in 1..Len(chars) |-> <<chars[i]>>]

\* a JSON string literal: one token
Lit(chars) == << (<<"\"">> \o chars) \o <<"\"">> >>

\* a JSON key literal; the key name is kept as one item
Key(name) == Lit(<<name>>)

Pair(name, value) == (Key(name) \o Raw(<<":", " ">>)) \o value

Obj(body) == (Raw(<<"{">>) \o body) \o Raw(<<"}">>)

Comma == Raw(<<",", " ">>)

JsonNull == Raw(<<"n","u","l","l">>)

Digits == {"0","1","2","3","4","5","6","7","8","9"}

\* the grave accent U+0060, which a TLA+ string cannot hold
Backtick == "U+0060"

FenceJson == Raw(<<Backtick,Backtick,Backtick,"j","s","o","n">>)

Fence == Raw(<<Backtick,Backtick,Backtick>>)

WhitespaceTokens == {<<w>> : w \in Whitespace}

IsLit(t) == Len(t) >= 2 /\ t[1] = "\"" /\ t[Len(t)] = "\""

LitText(t) == SubSeq(t, 2, Len(t) - 1)

JsonError == [ok |-> FALSE, kind |-> "error", pairs |-> <<>>]

\* a JSON value standing alone: string, null or one-digit number
ParseValue(T) ==
  IF Len(T) = 1 /\ IsLit(T[1]) THEN [ok |-> TRUE, kind |-> "str", s |-> LitText(T[1])]
  ELSE IF T = JsonNull THEN [ok |-> TRUE, kind |-> "null", s |-> <<>>]
  ELSE IF Len(T) = 1 /\ Len(T[1]) = 1 /\ T[1][1] \in Digits
       THEN [ok |-> TRUE, kind |-> "num", s |-> T[1]]
  ELSE [ok |-> FALSE, kind |-> "error", s |-> <<>>]

\* the members of an object: key ':' value (',' key ':' value)*
RECURSIVE ParsePairs(_)
ParsePairs(I) ==
  IF Len(I) < 3 \/ ~IsLit(I[1]) \/ I[2] # <<":">> THEN JsonError
  ELSE LET vlen == IF Len(I) >= 6 /\ SubSeq(I, 3, 6) = JsonNull THEN 4 ELSE 1
           v    == ParseValue(SubSeq(I, 3, 2 + vlen))
           rest == SubSeq(I, 3 + vlen, Len(I))
           this == [key |-> LitText(I[1]), val |-> v]
       IN  IF ~v.ok THEN JsonError
           ELSE IF rest = <<>> THEN [ok |-> TRUE, kind |-> "object", pairs |-> <<this>>]
           ELSE IF rest[1] # <<",">> \/ Len(rest) = 1 THEN JsonError
           ELSE LET r == ParsePairs(Tail(rest))
                IN  IF r.ok
                    THEN [ok |-> TRUE, kind |-> "object", pairs |-> <<this>> \o r.pairs]
                    ELSE JsonError

\* a JSON document of the flat fragment: an object whose values are strings,
\* null or numbers, or one such value alone; whitespace between tokens is
\* insignificant
ParseDocument(T) ==
  IF Len(T) >= 2 /\ T[1] = <<"{">> /\ T[Len(T)] = <<"}">>
  THEN IF Len(T) = 2 THEN [ok |-> TRUE, kind |-> "object", pairs |-> <<>>]
       ELSE ParsePairs(SubSeq(T, 2, Len(T) - 1))
  ELSE IF ParseValue(T).ok THEN [ok |-> TRUE, kind |-> "scalar", pairs |-> <<>>]
  ELSE JsonError

JsonParse(result) ==
  ParseDocument(SelectSeq(result, LAMBDA t : t \notin WhitespaceTokens))

HasKey(pairs, name) == \E i \in 1..Len(pairs) : pairs[i].key = <<name>>

\* the value of the last member called name
GetKey(pairs, name) ==
  pairs[CHOOSE i \in 1..Len(pairs) :
          /\ pairs[i].key = <<name>>
          /\ \A j \in (i + 1)..Len(pairs) : pairs[j].key # <<name>>].val

\* clean_markdown that strips grave accents only, whatever the fence
clean_markdown_FenceOnly(result) ==
  IF str_startswith(result, Fence)
  THEN str_strip(str_strip(result, Range(Fence)), WhitespaceTokens)
  ELSE result

\* "Clean JSON from markdown code blocks if present"
clean_markdown(result) ==
  IF str_startswith(result, FenceJson)
  THEN str_strip(str_strip(str_strip(result, Range(FenceJson)), Range(Fence)),
                 WhitespaceTokens)
  ELSE IF str_startswith(result, Fence)
  THEN str_strip(str_strip(result, Range(Fence)), WhitespaceTokens)
  ELSE result

(***************************************************************************)
(* Inputs: what the network and the model can answer.                      *)
(***************************************************************************)
RootLower == "http://r/"

\* a root whose own path holds a keyword of both collectors
RootAbout == "http://r/about"

\* an upper-case scheme: requests accepts it, str.startswith('http') does not
RootUpper == "HTTP://r"

\* HttpUrl lower-cases the scheme, so a request never carries RootUpper
EndpointRoots == {RootLower, RootAbout}

ScriptRoots == {RootLower, RootAbout, RootUpper}

HrefPool == {"/about", "http://r/about", "Apply", "/contact", "#top"}

\* the href values of the anchors of a root page, in document order
AnchorLists == UNION {[1..n -> HrefPool] : n \in 0..MaxAnchors}

PageHtml == "<p>"

PageText == "text"

\* what requests.get(p, timeout=10) and trafilatura.extract do for one page
FetchOutcomes ==
  { [kind |-> "timeout",       status |-> 0,   html |-> "",       extracted |-> None],
    [kind |-> "request_error", status |-> 0,   html |-> "",       extracted |-> None],
    [kind |-> "response",      status |-> 404, html |-> PageHtml, extracted |-> None],
    [kind |-> "response",      status |-> 200, html |-> PageHtml, extracted |-> Some(PageText)],
    [kind |-> "response",      status |-> 200, html |-> PageHtml, extracted |-> None],
    [kind |-> "response",      status |-> 200, html |-> "",       extracted |-> None] }

NoFetch == [kind |-> "none", status |-> 0, html |-> "", extracted |-> None]

NameG == <<"G">>

DeadlineClosed == <<"C","l","o","s","e","d">>

DeadlineOpen == <<"J","u","n","e"," ","1">>

NameO == <<"O">>

Text == <<"T">>

required_fields ==
  << "opportunity_title", "h1_tag", "meta_title", "meta_description",
     "opportunity_teaser", "opportunity_title_for_subscriber" >>

RECURSIVE Members(_, _)
\* the members "name": "T" for the names fields[1..n], comma separated
Members(fields, n) ==
  IF n = 0 THEN <<>>
  ELSE IF n = 1 THEN Pair(fields[1], Lit(Text))
  ELSE (Members(fields, n - 1) \o Comma) \o Pair(fields[n], Lit(Text))

Fenced(tokens) == ((FenceJson \o Raw(<<"\n">>)) \o tokens) \o (Raw(<<"\n">>) \o Fence)

ReplyEmpty == ""

ReplyEmptyObject == "{}"

ReplyProse == "Sorry"

\* the prompt's own format example ends its last member with a comma
ReplyTrailingComma == "{\"grant_name\": \"G\",}"

ReplyNamed == "{\"grant_name\": \"G\"}"

ReplyOpen == "{\"grant_name\": \"G\", \"proposal_deadline\": \"June 1\"}"

ReplyClosed == "{\"grant_name\": \"G\", \"proposal_deadline\": \"Closed\"}"

ReplyNoName == "{\"proposal_deadline\": \"June 1\"}"

ReplyEmptyName == "{\"grant_name\": \"\"}"

ReplyBlankName == "{\"grant_name\": \" \"}"

ReplyPlaceholderName == "{\"grant_name\": \"Not specified\"}"

ReplyNullName == "{\"grant_name\": null}"

\* ''' stands for the fence of three grave accents
ReplyFenced == "'''json\n{\"grant_name\": \"G\"}\n'''"

\* the model fills in grant_url although the prompt does not ask for it
ReplyWithUrl == "{\"grant_name\": \"G\", \"grant_url\": \"http://m\"}"

ReplyOrgNamed == "{\"org_name\": \"O\"}"

\* no org_name, another field filled in
ReplyOrgMission == "{\"mission\": \"T\"}"

MetaFull ==
  "{\"opportunity_title\": \"T\", \"h1_tag\": \"T\", \"meta_title\": \"T\", \"meta_description\": \"T\", \"opportunity_teaser\": \"T\", \"opportunity_title_for_subscriber\": \"T\"}"

\* the last field is missing
MetaPartial ==
  "{\"opportunity_title\": \"T\", \"h1_tag\": \"T\", \"meta_title\": \"T\", \"meta_description\": \"T\", \"opportunity_teaser\": \"T\"}"

MetaFenced ==
  "'''json\n{\"opportunity_title\": \"T\", \"h1_tag\": \"T\", \"meta_title\": \"T\", \"meta_description\": \"T\", \"opportunity_teaser\": \"T\", \"opportunity_title_for_subscriber\": \"T\"}\n'''"

\* every reply with its tokens
ReplyTable ==
  << <<ReplyEmpty,
        <<>>>>,
     <<ReplyEmptyObject,
        Obj(<<>>)>>,
     <<ReplyProse,
        Raw(<<"S","o","r","r","y">>)>>,
     <<ReplyTrailingComma,
        Obj(Pair("grant_name", Lit(NameG)) \o Raw(<<",">>))>>,
     <<ReplyNamed,
        Obj(Pair("grant_name", Lit(NameG)))>>,
     <<ReplyOpen,
        Obj((Pair("grant_name", Lit(NameG)) \o Comma)
            \o Pair("proposal_deadline", Lit(DeadlineOpen)))>>,
     <<ReplyClosed,
        Obj((Pair("grant_name", Lit(NameG)) \o Comma)
            \o Pair("proposal_deadline", Lit(DeadlineClosed)))>>,
     <<ReplyNoName,
        Obj(Pair("proposal_deadline", Lit(DeadlineOpen)))>>,
     <<ReplyEmptyName,
        Obj(Pair("grant_name", Lit(<<>>)))>>,
     <<ReplyBlankName,
        Obj(Pair("grant_name", Lit(<<" ">>)))>>,
     <<ReplyPlaceholderName,
        Obj(Pair("grant_name", Lit(Chars(NotSpecified))))>>,
     <<ReplyNullName,
        Obj(Pair("grant_name", JsonNull))>>,
     <<ReplyFenced,
        Fenced(Obj(Pair("grant_name", Lit(NameG))))>>,
     <<ReplyWithUrl,
        Obj((Pair("grant_name", Lit(NameG)) \o Comma)
            \o Pair("grant_url", Lit(Chars("http://m"))))>>,
     <<ReplyOrgNamed,
        Obj(Pair("org_name", Lit(NameO)))>>,
     <<ReplyOrgMission,
        Obj(Pair("mission", Lit(Text)))>>,
     <<MetaFull,
        Obj(Members(required_fields, 6))>>,
     <<MetaPartial,
        Obj(Members(required_fields, 5))>>,
     <<MetaFenced,
        Fenced(Obj(Members(required_fields, 6)))>> >>

TokensOf ==
  [r \in {ReplyTable[i][1] : i \in 1..Len(ReplyTable)} |->
     ReplyTable[CHOOSE i \in 1..Len(ReplyTable) : ReplyTable[i][1] = r][2]]

\* the tokens of a reply
Tokens(reply) == TokensOf[reply]

GrantReplies ==
  { ReplyEmpty, ReplyEmptyObject, ReplyProse, ReplyTrailingComma, ReplyNamed,
    ReplyOpen, ReplyClosed, ReplyNoName, ReplyEmptyName, ReplyBlankName,
    ReplyPlaceholderName, ReplyNullName, ReplyFenced, ReplyWithUrl }

\* llm.predict either raises or returns a reply
ModelRaised == [raised |-> TRUE, reply |-> ""]

ModelOutcomes(replies) ==
  {ModelRaised} \cup {[raised |-> FALSE, reply |-> r] : r \in replies}

\* llm.predict was not called: no reply, not even the empty one
NoModel == [raised |-> FALSE, reply |-> "(no call)"]

(***************************************************************************)
(* extract_grant_info: from the model's reply to a Grant or nothing.       *)
(***************************************************************************)
\* the parsed document j fits the schema of Grant: an object whose str
\* fields hold strings; a list or dict field cannot hold a string, null or
\* number, a key the class does not know is ignored
GrantTyped(j) ==
  /\ j.ok
  /\ j.kind = "object"
  /\ \A i \in 1..Len(j.pairs) :
       /\ (j.pairs[i].key \in {<<f>> : f \in GrantStrFields}
             => j.pairs[i].val.kind = "str")
       /\ j.pairs[i].key \notin {<<f>> : f \in GrantStructFields}

\* the Grant built from the parsed document j
GrantFromJson(j) ==
  IF GrantTyped(j)
  THEN [ok |-> TRUE,
        grant |-> [f \in DOMAIN GrantDefault |->
                     IF HasKey(j.pairs, f) THEN Intern(GetKey(j.pairs, f).s)
                     ELSE GrantDefault[f]]]
  ELSE [ok |-> FALSE, grant |-> GrantDefault]

\* Grant.model_validate_json(result): ok is FALSE when it raises
Grant_model_validate_json(result) == GrantFromJson(JsonParse(result))

\* InvalidName without the whitespace-only test
InvalidName_NoStrip(name) == name = "" \/ name = NotSpecified

\* "Check if this is a valid grant (has meaningful content)"
InvalidName(name) ==
  \/ name = ""
  \/ name = NotSpecified
  \/ str_strip(Chars(name), Whitespace) = <<>>

\* the try block and its handler, for the validation outcome v of result
AfterValidate(result, v) ==
  IF v.ok
  THEN IF InvalidName(v.grant.grant_name) THEN None ELSE Some(v.grant)
  ELSE IF str_strip(result, WhitespaceTokens) \in {Obj(<<>>), <<>>}
       THEN None
       ELSE Some(GrantDefault)

\* extract_grant_info once the fences are cleaned off result
GrantOrNone(result) == AfterValidate(result, Grant_model_validate_json(result))

\* extract_grant_info from the point the model has replied with result:
\* None or Some(grant)
extract_grant_info(result) ==
  GrantOrNone(clean_markdown(Tokens(result)))

\* IsClosed without lower()
IsClosed_CaseSensitive(deadline) == str_contains(Chars(deadline), Closed)

\* "closed" not in grant.proposal_deadline.lower(), negated
IsClosed(deadline) == str_contains(str_lower(Chars(deadline)), Closed)

(***************************************************************************)
(* One page of the grant collector's loop.                                 *)
(***************************************************************************)
\* get_html_content_and_extract_text without the fallback to the raw HTML
get_html_content_and_extract_text_NoFallback(f) ==
  IF f.kind # "response" THEN [html |-> None, text |-> None]
  ELSE IF f.status # 200 THEN [html |-> None, text |-> None]
  ELSE [html |-> Some(f.html), text |-> f.extracted]

\* get_html_content_and_extract_text(url) when the network answers f
get_html_content_and_extract_text(f) ==
  IF f.kind # "response" THEN [html |-> None, text |-> None]
  ELSE IF f.status # 200 THEN [html |-> None, text |-> None]
  ELSE [html |-> Some(f.html),
        text |-> Some(IF f.extracted # None /\ f.extracted[1] # ""
                      THEN f.extracted[1] ELSE f.html)]

\* "if not extracted_text"
NoText(t) == t = None \/ t[1] = ""

\* except Exception as e: print(...); the loop goes on with the next page
run_pipeline_except == "continue"

\* extract_grant_info on every reply of the pool, computed once
GrantOf == [r \in GrantReplies |-> extract_grant_info(r)]

\* SetGrantUrl that leaves the record as the model gave it
SetGrantUrl_Skip(grant, p) == grant

\* "grant.grant_url = p  # Add the URL to the grant data"
SetGrantUrl(grant, p) == [grant EXCEPT !.grant_url = p]

\* the deadline test on the grant that carries its page's URL
ClosedCheck(grant) ==
  IF ~IsClosed(grant.proposal_deadline)
  THEN [result |-> "added", grant |-> Some(grant)]
  ELSE [result |-> "closed", grant |-> Some(grant)]

\* the body of the grant loop for page p, network answer f and model
\* outcome m: what happened, and the record appended if one was
GrantPage(p, f, m) ==
  IF ~str_startswith(Chars(p), Http) THEN [result |-> "skip_url", grant |-> None]
  ELSE IF NoText(get_html_content_and_extract_text(f).text)
  THEN [result |-> "no_text", grant |-> None]
  ELSE IF m.raised THEN [result |-> "error", grant |-> None]
  ELSE IF GrantOf[m.reply] = None THEN [result |-> "none", grant |-> None]
  ELSE ClosedCheck(SetGrantUrl(GrantOf[m.reply][1], p))

\* PageCalls that hands every fetched page to the model, text or not
PageCalls_ModelAlways(p) ==
  { c \in (FetchOutcomes \cup {NoFetch})
            \X (ModelOutcomes(GrantReplies) \cup {NoModel}) :
      /\ (c[1] = NoFetch) <=> ~str_startswith(Chars(p), Http)
      /\ (c[2] = NoModel) <=> (c[1] = NoFetch) }

\* the network answer and the model outcome one iteration on page p can
\* meet: the fetch is issued only for an http page, the model is called only
\* on a page that gave text
PageCalls(p) ==
  { c \in (FetchOutcomes \cup {NoFetch})
            \X (ModelOutcomes(GrantReplies) \cup {NoModel}) :
      /\ (c[1] = NoFetch) <=> ~str_startswith(Chars(p), Http)
      /\ (c[2] = NoModel) <=>
           (c[1] = NoFetch \/ NoText(get_html_content_and_extract_text(c[1]).text)) }

\* what one iteration on page p can append to grants: nothing or one record
PageGrants(p) ==
  { IF r.result = "added" THEN <<r.grant[1]>> ELSE <<>> :
      r \in {GrantPage(p, c[1], c[2]) : c \in PageCalls(p)} }

\* the lists run_pipeline can return once scrape_site has returned ps
RECURSIVE run_pipeline(_)
run_pipeline(ps) ==
  IF ps = <<>> THEN {<<>>}
  ELSE {h \o t : h \in PageGrants(Head(ps)), t \in run_pipeline(Tail(ps))}

\* the lists run_pipeline(u) can return, over the anchors of the root page
\* and the order scrape_site hands the candidates on
grant_run_pipeline(u) ==
  UNION { run_pipeline(ps) :
            ps \in UNION { scrape_site(u, links) : links \in AnchorLists } }

(***************************************************************************)
(* GrantDataService.collect_grants: the limit.                             *)
(***************************************************************************)
\* Python truth value of Optional[int]
Truthy(n) == n # None /\ n[1] # 0

\* grants[:k]
Slice(list, k) ==
  IF k >= 0 THEN SubSeq(list, 1, IF k < Len(list) THEN k ELSE Len(list))
  ELSE SubSeq(list, 1, IF Len(list) + k > 0 THEN Len(list) + k ELSE 0)

\* "Apply max_grants limit if specified"
apply_max_grants(list, limit) ==
  IF Truthy(limit) /\ Len(list) > limit[1]
  THEN Slice(list, limit[1])
  ELSE list

\* the max_grants values a request can carry: absent (null), the default 10
\* and other integers; negative ones are not enumerated
MaxGrantsPool == {None, Some(0), Some(1), Some(10)}

(***************************************************************************)
(* The organisation collector.                                             *)
(***************************************************************************)
\* class Organization(BaseModel): every field with its default
OrganizationDefault ==
  [ org_name   |-> NotSpecified,
    mission    |-> NotSpecified,
    background |-> NotSpecified,
    about      |-> NotSpecified,
    contact    |-> [phone |-> NotSpecified, email |-> NotSpecified,
                    address |-> NotSpecified, other_info |-> NotSpecified] ]

OrgStrFields == {"org_name", "mission", "background", "about"}

OrgStructFields == {"contact"}

\* the parsed document j fits the schema of Organization
OrganizationTyped(j) ==
  /\ j.ok
  /\ j.kind = "object"
  /\ \A i \in 1..Len(j.pairs) :
       /\ (j.pairs[i].key \in {<<f>> : f \in OrgStrFields}
             => j.pairs[i].val.kind = "str")
       /\ j.pairs[i].key \notin {<<f>> : f \in OrgStructFields}

\* the Organization built from the parsed document j
OrganizationFromJson(j) ==
  IF OrganizationTyped(j)
  THEN [ok |-> TRUE,
        organization |-> [f \in DOMAIN OrganizationDefault |->
                            IF HasKey(j.pairs, f) THEN Intern(GetKey(j.pairs, f).s)
                            ELSE OrganizationDefault[f]]]
  ELSE [ok |-> FALSE, organization |-> OrganizationDefault]

\* Organization.model_validate_json(result): ok is FALSE when it raises
Organization_model_validate_json(result) ==
  OrganizationFromJson(JsonParse(result))

\* OrganizationOrDefault whose record lacks the nested contact
OrganizationOrDefault_Flat(v) ==
  [f \in OrgStrFields |->
     IF v.ok THEN v.organization[f] ELSE OrganizationDefault[f]]

\* the try block and its handler, for the validation outcome v
OrganizationOrDefault(v) == IF v.ok THEN v.organization ELSE OrganizationDefault

\* extract_organization_info from the point the model has replied
extract_organization_info(result) ==
  OrganizationOrDefault(Organization_model_validate_json(clean_markdown(Tokens(result))))

OrgReplies == {ReplyOrgNamed, ReplyOrgMission, ReplyEmptyObject, ReplyProse}

\* the network answers one iteration of the organisation loop can meet
OrgPageFetches(p) ==
  { f \in FetchOutcomes \cup {NoFetch} :
      (f = NoFetch) <=> ~str_startswith(Chars(p), Http) }

\* one iteration of the organisation loop for page p and network answer f
OrgPage(p, f) ==
  LET t == get_html_content_and_extract_text(f).text
  IN  IF f = NoFetch THEN [result |-> "skip_url", text |-> None]
      ELSE IF NoText(t) THEN [result |-> "no_text", text |-> None]
      ELSE [result |-> "added", text |-> t]

\* the page_texts lists the organisation loop can build over the pages ps
RECURSIVE org_page_texts(_)
org_page_texts(ps) ==
  IF ps = <<>> THEN {<<>>}
  ELSE {OrgPage(Head(ps), f).text \o t :
          f \in OrgPageFetches(Head(ps)), t \in org_page_texts(Tail(ps))}

\* the separator of combined_text, without its blank lines
NewPage == "--- NEW PAGE ---"

\* combined_text that keeps the first page only
combined_text_First(texts) == <<texts[1]>>

\* "\n\n--- NEW PAGE ---\n\n".join(page_texts), item by item: the texts
\* with the separator between neighbours
combined_text(texts) ==
  [i \in 1..(2 * Len(texts) - 1) |->
     IF i % 2 = 1 THEN texts[(i + 1) \div 2] ELSE NewPage]

\* OrgRun that discards a record without a name, as the grant collector does
OrgRun_DiscardPlaceholder(m) ==
  IF m.raised
  THEN [raised |-> TRUE, exc |-> "model_call", value |-> None]
  ELSE [raised |-> FALSE, exc |-> "none",
        value |-> IF extract_organization_info(m.reply).org_name = NotSpecified
                  THEN None
                  ELSE Some(extract_organization_info(m.reply))]

\* run_pipeline after the loop when page_texts is not empty and the model's
\* outcome is m: the model call is not guarded, an Organization is truthy
OrgRun(m) ==
  IF m.raised
  THEN [raised |-> TRUE, exc |-> "model_call", value |-> None]
  ELSE [raised |-> FALSE, exc |-> "none",
        value |-> Some(extract_organization_info(m.reply))]

\* run_pipeline after the loop, for the page_texts it gathered: None without
\* any text, else one model call, which is not guarded
OrgRunOutcomes(texts) ==
  IF texts = <<>> THEN {[raised |-> FALSE, exc |-> "none", value |-> None]}
  ELSE { OrgRun(m) : m \in ModelOutcomes(OrgReplies) }

\* what collect_organization_data(u) can do: raise out of the root fetch or
\* out of the model call, or return None or the organisation's record
collect_organization_data(u) ==
  {[raised |-> TRUE, exc |-> "root_fetch", value |-> None]}
    \cup UNION { OrgRunOutcomes(texts) :
                   texts \in UNION { org_page_texts(ps) :
                     ps \in UNION { org_scrape_site(u, links) :
                       links \in AnchorLists } } }

(***************************************************************************)
(* The grant writer and the metadata writer.                               *)
(***************************************************************************)
NeverExpired ==
  { <<"n","o","t"," ","s","p","e","c","i","f","i","e","d">>, <<"n","/","a">>, <<>> }

expired_indicators ==
  << <<"c","l","o","s","e","d">>,
     <<"e","x","p","i","r","e","d">>,
     <<"p","a","s","t">>,
     <<"d","e","a","d","l","i","n","e"," ","p","a","s","s","e","d">> >>

\* GrantWriter.is_deadline_expired
is_deadline_expired(deadline_str) ==
  IF deadline_str = "" \/ str_lower(Chars(deadline_str)) \in NeverExpired THEN FALSE
  ELSE \E k \in 1..Len(expired_indicators) :
         str_contains(str_lower(Chars(deadline_str)), expired_indicators[k])

\* GrantWriter.filter_active_grants
filter_active_grants(data) ==
  SelectSeq(data, LAMBDA g : ~is_deadline_expired(g.proposal_deadline))

NoActiveDescription == "No active grant opportunities are currently available."

\* f"Error generating consolidated description from {n} grants"
ErrorDescription(n) ==
  << "Error generating consolidated description from 1 grants",
     "Error generating consolidated description from 2 grants",
     "Error generating consolidated description from 3 grants",
     "Error generating consolidated description from 4 grants" >>[n]

DescriptionReply == " desc\n"

\* GrantWriter.generate_consolidated_grant_description: the model outcome m
\* never leaves it as an exception
generate_consolidated_grant_description(active_grants, m) ==
  IF m.raised THEN ErrorDescription(Len(active_grants))
  ELSE Intern(str_strip(Chars(m.reply), Whitespace))

\* GrantWriter.process_grants_consolidated, its 'description' entry
process_grants_consolidated(grants_json, org_data_arg, m) ==
  LET active_grants == filter_active_grants(grants_json)
  IN  IF active_grants = <<>> THEN NoActiveDescription
      ELSE generate_consolidated_grant_description(active_grants, m)

\* a dict read from a JSON object: key name to value
DictOf(pairs) ==
  [k \in {pairs[i].key[1] : i \in 1..Len(pairs)} |->
     [kind |-> GetKey(pairs, k).kind, value |-> Intern(GetKey(pairs, k).s)]]

EmptyDict == DictOf(<<>>)

\* "Validate that all required fields are present"
ValidatedMetadata(parsed) ==
  IF \E i \in 1..Len(required_fields) : required_fields[i] \notin DOMAIN parsed
  THEN EmptyDict
  ELSE parsed

\* json.loads and the validation, for the parsed document j
MetadataFromJson(j) ==
  IF ~j.ok \/ j.kind # "object" THEN EmptyDict
  ELSE ValidatedMetadata(DictOf(j.pairs))

\* GrantMetadataWriter.generate_all_metadata_single_call: both except
\* clauses return {}
generate_all_metadata_single_call(m) ==
  IF m.raised THEN EmptyDict
  ELSE MetadataFromJson(JsonParse(clean_markdown(Tokens(m.reply))))

MetaReplies == {MetaFull, MetaPartial, MetaFenced, ReplyProse}

\* generate_all_metadata_single_call on every model outcome of the pool,
\* computed once
MetadataOf ==
  [m \in ModelOutcomes(MetaReplies) |-> generate_all_metadata_single_call(m)]

(***************************************************************************)
(* State.                                                                  *)
(***************************************************************************)
VARIABLES
  entry,            \* what was started: a collector script or an endpoint
  foundation_url,   \* the foundation root URL
  pc,               \* where the run stands
  anchors,          \* hrefs scrape_site read from the root page, until the
                    \* loop starts consuming its result
  pages,            \* run_pipeline: pages
  idx,              \* run_pipeline: i, the 1-based position in pages
  grants,           \* grant run_pipeline: grants
  page_texts,       \* organisation run_pipeline: page_texts
  fetched,          \* pages on which a content fetch was issued, in order
  last,             \* what the latest loop iteration did
  combined_texts,   \* extract_organization_info: the combined_text of each
                    \* model call of the organisation crawl
  exc,              \* where the exception that left run_pipeline or a
                    \* service came from; "none" when there is none
  max_grants,       \* request.max_grants once collect_grants has read it
  include_org_data, \* request.include_org_data once the controller read it
  api_key,          \* settings.OPENAI_API_KEY: "unread", "set" or "unset"
  grants_data,      \* what collect_grants returned
  org_data,         \* what collect_organization_data returned
  description,      \* what generate_consolidated_description returned
  metadata,         \* what generate_metadata returned
  writer_events,    \* failures swallowed inside the two writer agents
  status,           \* HTTP status of the response; 0 while there is none
  state,            \* URL finder: the AgentState of the graph run
  node,             \* URL finder: the node the graph run is at
  searches,         \* URL finder: how often the search node has run
  search_raised,    \* URL finder: the latest run of the search node raised
  validated,        \* URL finder: the validate_url calls of the latest run
                    \* of the process node, in order, each with its result
  call              \* a function called on its own: name, argument, result

crawl_vars ==
  <<anchors, pages, idx, grants, page_texts, fetched, last, combined_texts>>

request_vars == <<max_grants, include_org_data, api_key>>

result_vars == <<grants_data, org_data, description, metadata, writer_events, status>>

agent_vars == <<state, node, searches, search_raised, validated>>

vars ==
  <<entry, foundation_url, pc, crawl_vars, exc, request_vars, result_vars,
    agent_vars, call>>

Scripts == {"grant_script", "org_script"}

Endpoints == {"grants_endpoint", "pipeline_endpoint"}

NoLast == [p |-> "", fetch |-> NoFetch, model |-> NoModel,
           result |-> "none_yet", before |-> 0]

\* no graph run has been started
NoState ==
  [url |-> None, attempts |-> 0, max_attempts |-> 0, error |-> None,
   messages |-> <<>>]

\* no function has been called on its own
NoCall == [fn |-> "none", arg |-> <<>>, out |-> <<>>]

\* no graph run and no call on its own
NoAgent ==
  /\ state = NoState
  /\ node = "none"
  /\ searches = 0
  /\ search_raised = FALSE
  /\ validated = <<>>
  /\ call = NoCall

\* what every run starts from, whatever started it
Fresh ==
  /\ anchors = <<>>
  /\ pages = <<>>
  /\ idx = 0
  /\ grants = <<>>
  /\ page_texts = <<>>
  /\ fetched = <<>>
  /\ last = NoLast
  /\ combined_texts = <<>>
  /\ exc = "none"
  /\ max_grants = None
  /\ include_org_data = TRUE
  /\ api_key = "unread"
  /\ grants_data = <<>>
  /\ org_data = None
  /\ description = None
  /\ metadata = None
  /\ writer_events = {}
  /\ status = 0

\* one of the two collector scripts is run on a root URL
Init ==
  /\ entry \in Scripts
  /\ foundation_url \in ScriptRoots
  /\ pc = (IF entry = "org_script" THEN "o_scrape" ELSE "g_scrape")
  /\ Fresh
  /\ NoAgent

(***************************************************************************)
(* The grant collector: run_pipeline(url).                                 *)
(***************************************************************************)
\* pages = scrape_site(url): the root fetch is not guarded
G_Scrape ==
  /\ pc = "g_scrape"
  /\ \/ /\ pc' = "g_raised"
        /\ exc' = "root_fetch"
        /\ UNCHANGED crawl_vars
     \/ \E links \in AnchorLists :
          \E ps \in scrape_site(foundation_url, links) :
            /\ anchors' = links
            /\ pages' = ps
            /\ idx' = 1
            /\ grants' = <<>>
            /\ pc' = "g_loop"
            /\ UNCHANGED <<page_texts, fetched, last, combined_texts, exc>>
  /\ UNCHANGED <<agent_vars, call>>
  /\ UNCHANGED <<entry, foundation_url, request_vars, result_vars>>

\* one iteration of "for i, p in enumerate(pages, 1)"
G_Page ==
  /\ pc = "g_loop"
  /\ idx <= Len(pages)
  /\ LET p == pages[idx]
     IN  \E c \in PageCalls(p) :
           \E r \in {GrantPage(p, c[1], c[2])} :
               /\ last' = [p |-> p, fetch |-> c[1], model |-> c[2],
                           result |-> r.result, before |-> Len(grants)]
               /\ grants' = IF r.result = "added"
                            THEN Append(grants, r.grant[1]) ELSE grants
               /\ fetched' = IF c[1] = NoFetch THEN fetched ELSE Append(fetched, p)
               /\ IF r.result = "error" /\ run_pipeline_except # "continue"
                  THEN pc' = "g_raised" /\ exc' = "page" /\ idx' = idx
                  ELSE pc' = "g_loop" /\ exc' = exc /\ idx' = idx + 1
  /\ anchors' = <<>>
  /\ UNCHANGED <<agent_vars, call>>
  /\ UNCHANGED <<entry, foundation_url, pages, page_texts, combined_texts,
                 request_vars, result_vars>>

\* return grants: the locals go out of scope
G_Return ==
  /\ pc = "g_loop"
  /\ idx > Len(pages)
  /\ pc' = "g_returned"
  /\ anchors' = <<>>
  /\ pages' = <<>>
  /\ idx' = 0
  /\ fetched' = <<>>
  /\ last' = NoLast
  /\ UNCHANGED <<agent_vars, call>>
  /\ UNCHANGED <<entry, foundation_url, grants, page_texts, combined_texts, exc,
                 request_vars, result_vars>>

(***************************************************************************)
(* The organisation collector: run_pipeline(url).                          *)
(***************************************************************************)
\* pages = scrape_site(url): the root fetch is not guarded
O_Scrape ==
  /\ pc = "o_scrape"
  /\ \/ /\ pc' = "o_raised"
        /\ exc' = "root_fetch"
        /\ UNCHANGED crawl_vars
     \/ \E links \in AnchorLists :
          \E ps \in org_scrape_site(foundation_url, links) :
            /\ anchors' = links
            /\ pages' = ps
            /\ idx' = 1
            /\ page_texts' = <<>>
            /\ pc' = "o_loop"
            /\ UNCHANGED <<grants, fetched, last, combined_texts, exc>>
  /\ UNCHANGED <<agent_vars, call>>
  /\ UNCHANGED <<entry, foundation_url, request_vars, result_vars>>

\* one iteration of the page loop: the text of a page that gave one is kept
O_Page ==
  /\ pc = "o_loop"
  /\ idx <= Len(pages)
  /\ LET p == pages[idx]
     IN  \E f \in OrgPageFetches(p) :
           \E r \in {OrgPage(p, f)} :
               /\ last' = [p |-> p, fetch |-> f, model |-> NoModel,
                           result |-> r.result, before |-> Len(page_texts)]
               /\ page_texts' = page_texts \o r.text
               /\ fetched' = IF f = NoFetch THEN fetched ELSE Append(fetched, p)
  /\ idx' = idx + 1
  /\ anchors' = <<>>
  /\ UNCHANGED <<agent_vars, call>>
  /\ UNCHANGED <<entry, foundation_url, pc, pages, grants, combined_texts, exc,
                 request_vars, result_vars>>

\* after the loop: None without any text, else one model call, which is not
\* guarded; collect_organization_data hands the value on
O_Finish ==
  /\ pc = "o_loop"
  /\ idx > Len(pages)
  /\ IF page_texts = <<>>
     THEN /\ org_data' = None
          /\ pc' = "o_returned"
          /\ exc' = exc
          /\ last' = NoLast
          /\ combined_texts' = combined_texts
     ELSE \E m \in ModelOutcomes(OrgReplies) :
            \E r \in {OrgRun(m)} :
              /\ combined_texts' = Append(combined_texts, combined_text(page_texts))
              /\ last' = [p |-> "", fetch |-> NoFetch, model |-> m,
                          result |-> IF r.raised THEN "error" ELSE "extracted",
                          before |-> Len(page_texts)]
              /\ IF r.raised
                 THEN /\ pc' = "o_raised"
                      /\ exc' = r.exc
                      /\ org_data' = org_data
                 ELSE /\ org_data' = r.value
                      /\ pc' = "o_returned"
                      /\ exc' = exc
  /\ anchors' = <<>>
  /\ pages' = <<>>
  /\ idx' = 0
  /\ fetched' = <<>>
  /\ UNCHANGED <<agent_vars, call>>
  /\ UNCHANGED <<entry, foundation_url, grants, page_texts, request_vars, grants_data,
                 description, metadata, writer_events, status>>

Next ==
  \/ G_Scrape
  \/ G_Page
  \/ G_Return
  \/ O_Scrape
  \/ O_Page
  \/ O_Finish

Spec == Init /\ [][Next]_vars

(***************************************************************************)
(* The API: POST /grants and POST /complete.  A service call is one step:  *)
(* the collector it calls runs to its end inside it.                       *)
(***************************************************************************)
\* run_pipeline of the grant collector on every root a request can carry:
\* the pairs of a root and a list it can return
GrantRuns ==
  UNION { {<<u, list>> : list \in grant_run_pipeline(u)} : u \in EndpointRoots }

\* collect_organization_data on every root a request can carry: the pairs
\* of a root and an outcome
OrgOutcomes ==
  UNION { {<<u, r>> : r \in collect_organization_data(u)} : u \in EndpointRoots }

\* a request has been validated and its handler entered
InitApi ==
  /\ entry \in Endpoints
  /\ foundation_url \in EndpointRoots
  /\ pc = "step1"
  /\ Fresh
  /\ NoAgent

\* GrantDataService.collect_grants: run_pipeline, then the limit.  An
\* exception of run_pipeline is wrapped and re-raised and the controller
\* answers HTTP 500.  The grants endpoint answers with the list, the complete
\* pipeline goes on to step 2.
CollectGrants ==
  /\ pc = "step1"
  /\ \/ /\ exc' = "root_fetch"
        /\ status' = 500
        /\ pc' = "responded"
        /\ UNCHANGED <<grants, max_grants, grants_data>>
     \/ \E run \in GrantRuns :
          \E mg \in MaxGrantsPool :
            /\ run[1] = foundation_url
            /\ grants' = run[2]
            /\ max_grants' = mg
            /\ grants_data' = apply_max_grants(run[2], mg)
            /\ exc' = exc
            /\ IF entry = "grants_endpoint"
               THEN status' = 200 /\ pc' = "responded"
               ELSE status' = status /\ pc' = "step2"
  /\ UNCHANGED <<agent_vars, call>>
  /\ UNCHANGED <<entry, foundation_url, anchors, pages, idx, page_texts, fetched, last,
                 combined_texts,
                 include_org_data, api_key, org_data, description, metadata,
                 writer_events>>

\* step 2 that collects the organisation whatever include_org_data says
CollectOrganization_Always ==
  /\ pc = "step2"
  /\ \E inc \in BOOLEAN :
       /\ include_org_data' = inc
       /\ \E o \in OrgOutcomes :
            /\ o[1] = foundation_url
            /\ IF o[2].raised
               THEN /\ exc' = o[2].exc
                    /\ status' = 500
                    /\ pc' = "responded"
                    /\ org_data' = org_data
               ELSE /\ org_data' = o[2].value
                    /\ pc' = "describe"
                    /\ UNCHANGED <<exc, status>>
  /\ grants' = <<>>
  /\ max_grants' = None
  /\ UNCHANGED <<agent_vars, call>>
  /\ UNCHANGED <<entry, foundation_url, anchors, pages, idx, page_texts, fetched, last,
                 combined_texts,
                 api_key, grants_data, description, metadata, writer_events>>

\* step 2 of run_complete_pipeline: "if request.include_org_data", then
\* OrganizationDataService.collect_organization_data; an exception of the
\* collector is wrapped and re-raised and the controller answers HTTP 500.
\* Of step 1 only grants_data is left.
CollectOrganization ==
  /\ pc = "step2"
  /\ \E inc \in BOOLEAN :
       /\ include_org_data' = inc
       /\ IF ~inc
          THEN /\ org_data' = None
               /\ pc' = "describe"
               /\ UNCHANGED <<exc, status>>
          ELSE \E o \in OrgOutcomes :
                 /\ o[1] = foundation_url
                 /\ IF o[2].raised
                    THEN /\ exc' = o[2].exc
                         /\ status' = 500
                         /\ pc' = "responded"
                         /\ org_data' = org_data
                    ELSE /\ org_data' = o[2].value
                         /\ pc' = "describe"
                         /\ UNCHANGED <<exc, status>>
  /\ grants' = <<>>
  /\ max_grants' = None
  /\ UNCHANGED <<agent_vars, call>>
  /\ UNCHANGED <<entry, foundation_url, anchors, pages, idx, page_texts, fetched, last,
                 combined_texts,
                 api_key, grants_data, description, metadata, writer_events>>

\* step 3, GrantWriterService.generate_consolidated_description: without an
\* API key it raises; the model is called only when an active grant is left
Describe ==
  /\ pc = "describe"
  /\ \E key \in {"set", "unset"} :
       /\ api_key' = key
       /\ IF key = "unset"
          THEN /\ exc' = "api_key"
               /\ status' = 500
               /\ pc' = "responded"
               /\ UNCHANGED <<description, writer_events>>
          ELSE \E m \in ModelOutcomes({DescriptionReply}) \cup {NoModel} :
                 /\ (m = NoModel) <=> (filter_active_grants(grants_data) = <<>>)
                 /\ description' =
                      Some(process_grants_consolidated(grants_data, org_data, m))
                 /\ writer_events' =
                      IF m.raised THEN writer_events \cup {"description_model_error"}
                      ELSE writer_events
                 /\ exc' = exc
                 /\ status' = status
                 /\ pc' = "metadata"
  /\ UNCHANGED <<agent_vars, call>>
  /\ UNCHANGED <<entry, foundation_url, crawl_vars, max_grants, include_org_data,
                 grants_data, org_data, metadata>>

\* step 4, MetadataWriterService.generate_metadata, then the PipelineResponse
Metadata ==
  /\ pc = "metadata"
  /\ \E m \in ModelOutcomes(MetaReplies) :
       \E md \in {MetadataOf[m]} :
           /\ metadata' = Some(md)
           /\ writer_events' =
                IF m.raised THEN writer_events \cup {"metadata_model_error"}
                ELSE IF md = EmptyDict
                THEN writer_events \cup {"metadata_bad_reply"}
                ELSE writer_events
  /\ status' = 200
  /\ pc' = "responded"
  /\ UNCHANGED <<agent_vars, call>>
  /\ UNCHANGED <<entry, foundation_url, crawl_vars, exc, request_vars, grants_data,
                 org_data, description>>

NextApi ==
  \/ CollectGrants
  \/ CollectOrganization
  \/ Describe
  \/ Metadata

SpecApi == InitApi /\ [][NextApi]_vars

(***************************************************************************)
(* The URL finder agent: validate_url, the search/process graph, find_url. *)
(***************************************************************************)
HttpScheme == <<"h","t","t","p",":","/","/">>

HttpsScheme == <<"h","t","t","p","s",":","/","/">>

\* "Add protocol if missing"
AddProtocol(u) ==
  IF str_startswith(Chars(u), HttpScheme) \/ str_startswith(Chars(u), HttpsScheme)
  THEN u
  ELSE Intern(HttpsScheme \o Chars(u))

\* has_keyword that reads the page body as it is
has_keyword_CaseSensitive(text) ==
  \/ str_contains(Chars(text), <<"g","r","a","n","t">>)
  \/ str_contains(Chars(text), <<"f","o","u","n","d","a","t","i","o","n">>)

\* "Check for foundation/grant keywords": has_grant or has_foundation
has_keyword(text) ==
  \/ str_contains(str_lower(Chars(text)), <<"g","r","a","n","t">>)
  \/ str_contains(str_lower(Chars(text)), <<"f","o","u","n","d","a","t","i","o","n">>)

\* what requests.get(url, timeout=10, ...) can do for validate_url
ValidateFetches ==
  { [kind |-> "timeout",       status |-> 0,   body |-> ""],
    [kind |-> "request_error", status |-> 0,   body |-> ""],
    [kind |-> "response",      status |-> 404, body |-> "Grants"],
    [kind |-> "response",      status |-> 500, body |-> "news"],
    [kind |-> "response",      status |-> 200, body |-> "Grants"],
    [kind |-> "response",      status |-> 200, body |-> "FOUNDATION"],
    [kind |-> "response",      status |-> 200, body |-> "news"],
    [kind |-> "response",      status |-> 200, body |-> ""] }

\* validate_url(u) when the network answers r: both except clauses return ""
validate_url(u, r) ==
  IF r.kind # "response" THEN ""
  ELSE IF r.status >= 400 THEN ""
  ELSE IF has_keyword(r.body) THEN AddProtocol(u)
  ELSE ""

\* the URLs validate_url can be called on
UrlPool == {"https://f.org", "http://a.org", "f.org", "www.f.org"}

\* response.content of the model: text, or a list of content blocks
NoUrlContent == [is_str |-> TRUE, words |-> <<"news">>]

ContentPool ==
  { [is_str |-> TRUE,  words |-> <<"https://f.org">>],
    [is_str |-> TRUE,  words |-> <<"http://a.org", "https://f.org">>],
    [is_str |-> TRUE,  words |-> <<"f.org">>],
    NoUrlContent,
    [is_str |-> FALSE, words |-> <<>>] }

\* re.findall(url_pattern, content) on a text whose URLs are whole words
HttpUrls(words) ==
  SelectSeq(words, LAMBDA w :
    \/ str_startswith(Chars(w), HttpScheme) /\ Len(Chars(w)) > Len(HttpScheme)
    \/ str_startswith(Chars(w), HttpsScheme) /\ Len(Chars(w)) > Len(HttpsScheme))

\* [a-zA-Z]
Letters ==
  {UpperLetters[i] : i \in 1..Len(UpperLetters)}
    \cup {LowerLetters[i] : i \in 1..Len(LowerLetters)}

\* re.findall(domain_pattern, content) on a text whose domains are whole
\* words: a label, a dot and two letters or more
DomainNames(words) ==
  SelectSeq(words, LAMBDA w :
    /\ \A i \in 1..Len(Chars(w)) : Chars(w)[i] \in Letters \cup Digits \cup {"-", "."}
    /\ \E i \in 2..(Len(Chars(w)) - 2) :
         /\ Chars(w)[i] = "."
         /\ Chars(w)[i - 1] # "."
         /\ Chars(w)[i + 1] \in Letters
         /\ Chars(w)[i + 2] \in Letters)

\* "Extract URL using regex", then "Try to extract domain-like strings"
ExtractUrls(words) ==
  IF HttpUrls(words) # <<>> THEN HttpUrls(words) ELSE DomainNames(words)

\* "Validate the first URL found": the positions whose URL validates when
\* the network answers outs[i] for urls[i]
ValidPositions(urls, outs) ==
  {i \in 1..Len(urls) : validate_url(urls[i], outs[i]) # ""}

Least(S) == CHOOSE i \in S : \A j \in S : i <= j

SearchError == "Search error: timed out"

MaxAttemptsError == "Could not find a valid URL after maximum attempts"

AgentError == "Agent error: expected string or bytes-like object"

\* find_url: initial_state
initial_state(n) ==
  [url |-> None, attempts |-> 0, max_attempts |-> n, error |-> None,
   messages |-> <<>>]

\* search_node_except that leaves attempts as it was
search_node_except_KeepAttempts(st) ==
  [st EXCEPT !.error = Some(SearchError)]

\* _search_node when the search or the model call raises
search_node_except(st) ==
  [st EXCEPT !.error = Some(SearchError), !.attempts = st.max_attempts]

\* _search_node when the model answers with content c
search_node(st, c) ==
  [st EXCEPT !.messages = <<c>>, !.attempts = st.attempts + 1]

\* _process_node, "No valid URL found"
NoValidUrl(st) ==
  IF st.attempts >= st.max_attempts
  THEN [st EXCEPT !.error = Some(MaxAttemptsError)]
  ELSE st

\* the validate_url call on urls[i] and what it returned
ValidateCall(urls, outs, i) ==
  [url |-> urls[i], validated_url |-> validate_url(urls[i], outs[i])]

\* validate_calls that goes through every URL
validate_calls_All(urls, outs) ==
  [i \in 1..Len(urls) |-> ValidateCall(urls, outs, i)]

\* "for idx, url in enumerate(urls, 1)": the validate_url calls of the loop,
\* which returns from the node at the first URL that validates
validate_calls(urls, outs) ==
  [i \in 1..(IF ValidPositions(urls, outs) # {}
             THEN Least(ValidPositions(urls, outs)) ELSE Len(urls))
     |-> ValidateCall(urls, outs, i)]

\* _process_node on text content whose URLs are urls
process_urls(st, urls, outs) ==
  IF ValidPositions(urls, outs) # {}
  THEN [st EXCEPT !.url = Some(validate_url(urls[Least(ValidPositions(urls, outs))],
                                            outs[Least(ValidPositions(urls, outs))]))]
  ELSE NoValidUrl(st)

\* _should_continue
should_continue(st) ==
  IF st.url # None /\ st.url[1] # "" THEN "end"
  ELSE IF st.error # None \/ st.attempts >= st.max_attempts THEN "end"
  ELSE "continue"

\* find_url, "Return results"
find_url_result(final_state) ==
  [success  |-> final_state.url # None,
   url      |-> final_state.url,
   attempts |-> final_state.attempts,
   error    |-> final_state.error]

\* find_url_except reading the attempts of the state the graph had reached
find_url_except_Reached(initial, reached) ==
  [success |-> FALSE, url |-> None, attempts |-> reached.attempts,
   error |-> Some(AgentError)]

\* find_url, "except Exception as e"
find_url_except(initial, reached) ==
  [success |-> FALSE, url |-> None, attempts |-> initial.attempts,
   error |-> Some(AgentError)]

MaxAttemptsPool == 0..MaxAttempts

\* find_url has built initial_state and invokes the graph at its entry point
InitFinder ==
  /\ entry = "find_url"
  /\ foundation_url = ""
  /\ pc = "invoke"
  /\ Fresh
  /\ \E n \in MaxAttemptsPool : state = initial_state(n)
  /\ node = "search"
  /\ searches = 0
  /\ search_raised = FALSE
  /\ validated = <<>>
  /\ call = NoCall

\* the search node: the search and the model call are inside one try
SearchNode ==
  /\ pc = "invoke"
  /\ node = "search"
  /\ \/ /\ state' = search_node_except(state)
        /\ search_raised' = TRUE
     \/ /\ \E c \in ContentPool : state' = search_node(state, c)
        /\ search_raised' = FALSE
  /\ searches' = searches + 1
  /\ node' = "process"
  /\ UNCHANGED <<entry, foundation_url, pc, crawl_vars, exc, request_vars,
                 result_vars, validated, call>>

\* the process node: re.findall raises on content that is not text, and
\* nothing in the node catches it
ProcessNode ==
  /\ pc = "invoke"
  /\ node = "process"
  /\ IF state.error # None
     THEN state' = state /\ node' = "decide" /\ validated' = <<>>
     ELSE IF state.messages = <<>>
     THEN state' = NoValidUrl(state) /\ node' = "decide" /\ validated' = <<>>
     ELSE IF ~state.messages[1].is_str
     THEN state' = state /\ node' = "raised" /\ validated' = <<>>
     ELSE \E urls \in {ExtractUrls(state.messages[1].words)} :
            \E outs \in [1..Len(urls) -> ValidateFetches] :
              /\ state' = process_urls(state, urls, outs)
              /\ validated' = validate_calls(urls, outs)
              /\ node' = "decide"
  /\ UNCHANGED <<entry, foundation_url, pc, crawl_vars, exc, request_vars,
                 result_vars, searches, search_raised, call>>

\* the conditional edge after process: "continue" leads to search, "end" to END
ShouldContinue ==
  /\ pc = "invoke"
  /\ node = "decide"
  /\ node' = (IF should_continue(state) = "continue" THEN "search" ELSE "END")
  /\ UNCHANGED <<entry, foundation_url, pc, crawl_vars, exc, request_vars,
                 result_vars, state, searches, search_raised, validated, call>>

\* graph.invoke returns final_state or raises, and find_url returns
FindUrlReturn ==
  /\ pc = "invoke"
  /\ node \in {"END", "raised"}
  /\ call' = [fn  |-> "find_url",
              arg |-> <<state.max_attempts>>,
              out |-> << IF node = "END"
                         THEN find_url_result(state)
                         ELSE find_url_except(initial_state(state.max_attempts),
                                              state) >>]
  /\ pc' = "returned"
  /\ UNCHANGED <<entry, foundation_url, crawl_vars, exc, request_vars,
                 result_vars, agent_vars>>

NextFinder ==
  \/ SearchNode
  \/ ProcessNode
  \/ ShouldContinue
  \/ FindUrlReturn

SpecFinder == InitFinder /\ [][NextFinder]_vars

(***************************************************************************)
(* Functions called on their own: the argument is drawn, the function is   *)
(* applied, the result is kept next to the argument.                       *)
(***************************************************************************)
\* JSON documents a model can answer with
Documents ==
  { Obj(<<>>),
    Obj(Pair("grant_name", Lit(NameG))),
    Obj((Pair("grant_name", Lit(NameG)) \o Comma)
        \o Pair("proposal_deadline", Lit(DeadlineClosed))),
    Obj(Pair("grant_name", Lit(<<" ">>))),
    Obj(Pair("grant_name", JsonNull)),
    Obj(Pair("org_name", Lit(NameO))),
    Obj(Members(required_fields, 6)),
    Obj(Members(required_fields, 5)),
    JsonNull,
    Lit(NameG),
    Raw(<<"1">>) }

\* a fence opened by three grave accents or by three and "json", the
\* document on its own lines or on the fence's lines
Wrappers == {"fence", "fence_json", "fence_tight", "fence_json_tight"}

Wrap(doc, w) ==
  CASE w = "fence"            -> ((Fence \o Raw(<<"\n">>)) \o doc) \o (Raw(<<"\n">>) \o Fence)
    [] w = "fence_json"       -> Fenced(doc)
    [] w = "fence_tight"      -> (Fence \o doc) \o Fence
    [] w = "fence_json_tight" -> (FenceJson \o doc) \o Fence

Parsers ==
  { "extract_grant_info", "extract_organization_info",
    "generate_all_metadata_single_call" }

\* what each of the three functions does with the model's reply: cleaning,
\* parsing, validation
ParseReply(fn, result) ==
  CASE fn = "extract_grant_info" ->
         GrantOrNone(clean_markdown(result))
    [] fn = "extract_organization_info" ->
         OrganizationOrDefault(Organization_model_validate_json(clean_markdown(result)))
    [] fn = "generate_all_metadata_single_call" ->
         MetadataFromJson(JsonParse(clean_markdown(result)))

\* proposal_deadline values
DeadlinePool ==
  { "", "Not specified", "n/a", "June 1", "Rolling", "Closed", "Expired",
    "Past due", "Deadline passed" }

Pending(fn, arg) == [fn |-> fn, arg |-> arg, out |-> <<>>]

PendingCalls ==
  {Pending("validate_url", <<u, r>>) : u \in UrlPool, r \in ValidateFetches}
    \cup {Pending("deadline", <<d>>) : d \in DeadlinePool}
    \cup {Pending(fn, <<d, w>>) : fn \in Parsers, d \in Documents, w \in Wrappers}
    \cup {Pending("get_html_content_and_extract_text", <<f>>) : f \in FetchOutcomes}

\* one function is about to be called on one argument
InitPure ==
  /\ entry = "call"
  /\ foundation_url = ""
  /\ pc = "call"
  /\ Fresh
  /\ state = NoState
  /\ node = "none"
  /\ searches = 0
  /\ search_raised = FALSE
  /\ validated = <<>>
  /\ call \in PendingCalls

Returned(out) ==
  /\ call' = [call EXCEPT !.out = <<out>>]
  /\ pc' = "returned"
  /\ UNCHANGED <<entry, foundation_url, crawl_vars, exc, request_vars,
                 result_vars, agent_vars>>

\* validate_url(url)
CallValidateUrl ==
  /\ pc = "call"
  /\ call.fn = "validate_url"
  /\ Returned(validate_url(call.arg[1], call.arg[2]))

\* the collector's test of proposal_deadline and the grant writer's
CallDeadlineTests ==
  /\ pc = "call"
  /\ call.fn = "deadline"
  /\ Returned([collector |-> IsClosed(call.arg[1]),
               writer    |-> is_deadline_expired(call.arg[1])])

\* the reply handling of the three model callers, on a document as it is
\* and on the same document inside a fence
CallParser ==
  /\ pc = "call"
  /\ call.fn \in Parsers
  /\ Returned([bare   |-> ParseReply(call.fn, call.arg[1]),
               fenced |-> ParseReply(call.fn, Wrap(call.arg[1], call.arg[2]))])

\* get_html_content_and_extract_text(url)
CallGetHtml ==
  /\ pc = "call"
  /\ call.fn = "get_html_content_and_extract_text"
  /\ Returned(get_html_content_and_extract_text(call.arg[1]))

NextPure ==
  \/ CallValidateUrl
  \/ CallDeadlineTests
  \/ CallParser
  \/ CallGetHtml

SpecPure == InitPure /\ [][NextPure]_vars

(***************************************************************************)
(* Properties.                                                             *)
(***************************************************************************)
\* the latest iteration of the grant loop called the model and got a reply
GrantReplied ==
  /\ pc = "g_loop"
  /\ last.result \in {"none", "closed", "added"}

\* the latest iteration of the grant loop appended nothing
NothingAppended == last.result # "added" /\ Len(grants) = last.before

\* the reply, fences removed, is not a JSON document that fits the schema
Unparsable(reply) ==
  ~Grant_model_validate_json(clean_markdown(Tokens(reply))).ok

\* the reply, fences and blanks removed, is '' or '{}'
EmptyReply(reply) ==
  str_strip(clean_markdown(Tokens(reply)), WhitespaceTokens) \in {<<>>, Obj(<<>>)}

\* C1: in the grant crawl a page whose model output cannot be parsed into a
\* Grant, or is empty, yields no grant record.
C1_UnparsableYieldsNothing ==
  (GrantReplied /\ (Unparsable(last.model.reply) \/ EmptyReply(last.model.reply)))
    => NothingAppended

\* the name the reply gives the grant once parsed
ParsedName(reply) ==
  Grant_model_validate_json(clean_markdown(Tokens(reply))).grant.grant_name

\* absent (the default placeholder), empty, whitespace-only or the placeholder
PlaceholderName(name) ==
  \/ name = "Not specified"
  \/ \A i \in 1..Len(Chars(name)) : Chars(name)[i] \in {" ", "\n", "\t", "\r"}

\* C2: when the model output parses but its grant_name is absent, empty,
\* whitespace-only or "Not specified", the page yields no grant record.
C2_PlaceholderNameYieldsNothing ==
  (GrantReplied /\ ~Unparsable(last.model.reply)
                /\ PlaceholderName(ParsedName(last.model.reply)))
    => (last.result = "none" /\ NothingAppended)

\* a whitespace-only name was parsed and the page gave no record
C2_Witness ==
  /\ GrantReplied
  /\ last.model.reply = ReplyBlankName
  /\ last.result = "none"
  /\ last.before > 0

\* s holds the letters c-l-o-s-e-d in a row, each in either case
HasClosedAnyCase(s) ==
  LET cs == Chars(s)
      either == << {"c","C"}, {"l","L"}, {"o","O"}, {"s","S"}, {"e","E"}, {"d","D"} >>
  IN  \E i \in 0..(Len(cs) - 6) : \A k \in 1..6 : cs[i + k] \in either[k]

\* C3: no record of the list run_pipeline builds and returns has a
\* proposal_deadline containing "closed" in any letter case.
C3_NoClosedDeadline ==
  \A i \in 1..Len(grants) : ~HasClosedAnyCase(grants[i].proposal_deadline)

\* a grant whose deadline reads "Closed" was extracted and left out
C3_Witness ==
  /\ pc = "g_loop"
  /\ last.result = "closed"
  /\ last.model.reply = ReplyClosed
  /\ NothingAppended

\* C4: every network call of a crawl (the root-page fetch, each page fetch,
\* each model call) is guarded, so that whichever of them fails, neither
\* collector's run_pipeline raises.
C4_NeverRaises == pc \notin {"g_raised", "o_raised"}

\* C5: the candidate list of scrape_site, in either collector, contains the
\* root URL.
C5_RootIsCandidate ==
  pc \in {"g_loop", "o_loop"} => \E i \in 1..Len(pages) : pages[i] = foundation_url

\* the root page had anchors, none matched a keyword, and the root is the
\* only candidate
C5_Witness ==
  /\ pc \in {"g_loop", "o_loop"}
  /\ anchors = <<"#top">>
  /\ pages = <<foundation_url>>

\* C6: the candidate list never holds the same URL twice, and no page is
\* fetched twice in one crawl.
C6_NoDuplicateCandidate ==
  /\ \A i, j \in 1..Len(pages) : pages[i] = pages[j] => i = j
  /\ \A i, j \in 1..Len(fetched) : fetched[i] = fetched[j] => i = j

\* two anchors pointed to the same page
C6_Witness ==
  /\ pc = "g_loop"
  /\ foundation_url = "http://r/"
  /\ anchors = <<"/about", "http://r/about">>
  /\ Len(pages) = 2

\* a keyword of the collector whose crawl is running occurs in the
\* lower-cased href
KeywordHref(l) ==
  LET kws == IF pc = "g_loop" THEN GrantKeywords ELSE OrgKeywords
      low == [i \in 1..Len(Chars(l)) |-> LowerChar(Chars(l)[i])]
  IN  \E k \in 1..Len(kws) :
        \E i \in 0..(Len(low) - Len(kws[k])) :
          \A n \in 1..Len(kws[k]) : low[i + n] = kws[k][n]

BeginsWith(s, prefix) ==
  /\ Len(Chars(s)) >= Len(prefix)
  /\ \A i \in 1..Len(prefix) : Chars(s)[i] = prefix[i]

\* the characters of the root without its trailing slashes
RootStem ==
  LET cs == Chars(foundation_url)
      n == CHOOSE k \in 0..Len(cs) :
             /\ \A i \in (k + 1)..Len(cs) : cs[i] = "/"
             /\ (k = 0 \/ cs[k] # "/")
  IN  SubSeq(cs, 1, n)

IsCandidate(chars) == \E i \in 1..Len(pages) : Chars(pages[i]) = chars

\* no content fetch was issued for a page that does not begin with "http"
OnlyHttpFetched ==
  \A i \in 1..Len(fetched) : BeginsWith(fetched[i], <<"h","t","t","p">>)

\* C7 as stated: a keyword href that does not begin with "http" becomes the
\* root, trailing slashes removed, followed by the href; no fetch of a
\* candidate that does not begin with "http".
C7_RootFollowedByHref ==
  /\ (pc \in {"g_loop", "o_loop"} /\ idx = 1) =>
       \A i \in 1..Len(anchors) :
         (KeywordHref(anchors[i]) /\ ~BeginsWith(anchors[i], <<"h","t","t","p">>))
           => IsCandidate(RootStem \o Chars(anchors[i]))
  /\ OnlyHttpFetched

\* C7, amended: a keyword href that begins with "/" becomes the root,
\* trailing slashes removed, followed by the href; any other keyword href
\* that does not begin with "http" becomes that root, a "/", and the href; one
\* that begins with "http" is kept; no fetch of a candidate that does not
\* begin with "http".
C7_RootSlashHref ==
  /\ (pc \in {"g_loop", "o_loop"} /\ idx = 1) =>
       \A i \in 1..Len(anchors) :
         KeywordHref(anchors[i]) =>
           IF BeginsWith(anchors[i], <<"/">>)
           THEN IsCandidate(RootStem \o Chars(anchors[i]))
           ELSE IF ~BeginsWith(anchors[i], <<"h","t","t","p">>)
           THEN IsCandidate((RootStem \o <<"/">>) \o Chars(anchors[i]))
           ELSE IsCandidate(Chars(anchors[i]))
  /\ OnlyHttpFetched

\* a relative href without a leading slash was rewritten against a root
\* with an upper-case scheme, and the loop skipped it without a fetch
C7_Witness ==
  /\ pc = "g_loop"
  /\ last.p = "HTTP://r/Apply"
  /\ last.result = "skip_url"
  /\ Len(fetched) > 0

\* collect_grants has returned and its argument is still known
CollectGrantsReturned ==
  \/ entry = "grants_endpoint" /\ pc = "responded" /\ status = 200
  \/ pc = "step2"

\* C8: collect_grants returns at most max_grants grants when max_grants is
\* given, namely the first max_grants of the crawl result in order, and the
\* whole crawl result when it is not given.
C8_AtMostMaxGrants ==
  CollectGrantsReturned =>
    IF max_grants = None THEN grants_data = grants
    ELSE /\ Len(grants_data) <= max_grants[1]
         /\ \A i \in 1..Len(grants) :
              i <= max_grants[1] => (i <= Len(grants_data) /\ grants_data[i] = grants[i])

\* C9: when a step of the complete pipeline fails, a failed model call inside
\* description or metadata generation included, the answer is HTTP 500 and
\* never a success.
C9_FailedStepIs500 ==
  (entry = "pipeline_endpoint" /\ pc = "responded"
     /\ (exc # "none"
         \/ "description_model_error" \in writer_events
         \/ "metadata_model_error" \in writer_events))
    => status = 500

\* C10: the metadata of every successful answer of the complete pipeline has
\* all six metadata fields.
C10_SixMetadataFields ==
  (entry = "pipeline_endpoint" /\ status = 200) =>
    \A f \in { "opportunity_title", "h1_tag", "meta_title", "meta_description",
               "opportunity_teaser", "opportunity_title_for_subscriber" } :
      f \in DOMAIN metadata[1]

\* C11: whatever max_attempts >= 0 the agent was built with, a run of the
\* graph executes the search node at most max_attempts times, and the search
\* node is not entered again once attempts has reached max_attempts.
C11_SearchAtMostMaxAttempts ==
  entry = "find_url" =>
    /\ searches <= state.max_attempts
    /\ (node = "search" /\ searches > 0) => state.attempts < state.max_attempts

\* find_url has returned its mapping
FindUrlReturned == entry = "find_url" /\ pc = "returned"

\* C12: find_url returns a mapping with the keys success, url, attempts and
\* error in which success is true exactly when url is not None; when the
\* graph run raised, success is false, url is None, attempts is 0 and error
\* begins with "Agent error:".
C12_FindUrlMapping ==
  FindUrlReturned =>
    /\ call.fn = "find_url"
    /\ DOMAIN call.out[1] = {"success", "url", "attempts", "error"}
    /\ call.out[1].success <=> (call.out[1].url # None)
    /\ node = "raised" =>
         /\ ~call.out[1].success
         /\ call.out[1].url = None
         /\ call.out[1].attempts = 0
         /\ call.out[1].error # None
         /\ BeginsWith(call.out[1].error[1],
                       <<"A","g","e","n","t"," ","e","r","r","o","r",":">>)

\* the process node raised on the first reply, after the search node had
\* counted its attempt, and find_url returned
C12_Witness ==
  /\ FindUrlReturned
  /\ node = "raised"
  /\ state.attempts = 1
  /\ ~call.out[1].success

\* c is the lower-case letter l or its capital
SameLetter(c, l) ==
  c = l \/ \E i \in 1..Len(LowerLetters) : LowerLetters[i] = l /\ UpperLetters[i] = c

\* the str s holds the lower-case word in a row, each letter in either case
HoldsAnyCase(s, word) ==
  \E i \in 0..(Len(Chars(s)) - Len(word)) :
    \A k \in 1..Len(word) : SameLetter(Chars(s)[i + k], word[k])

\* the fetch succeeded with a non-error status and the body names a grant or
\* a foundation
ValidPage(r) ==
  /\ r.kind = "response"
  /\ r.status < 400
  /\ \/ HoldsAnyCase(r.body, <<"g","r","a","n","t">>)
     \/ HoldsAnyCase(r.body, <<"f","o","u","n","d","a","t","i","o","n">>)

\* C13: validate_url returns a non-empty string exactly when the fetch
\* succeeded with a non-error status and the body holds "grant" or
\* "foundation" in any letter case; it then returns the input URL, with
\* "https://" in front when the input begins with neither "http://" nor
\* "https://"; in every other case it returns the empty string.
C13_ValidateUrl ==
  (call.fn = "validate_url" /\ pc = "returned") =>
    /\ (call.out[1] # "") <=> ValidPage(call.arg[2])
    /\ ValidPage(call.arg[2]) =>
         IF \/ BeginsWith(call.arg[1], <<"h","t","t","p",":","/","/">>)
            \/ BeginsWith(call.arg[1], <<"h","t","t","p","s",":","/","/">>)
         THEN call.out[1] = call.arg[1]
         ELSE Chars(call.out[1])
                = <<"h","t","t","p","s",":","/","/">> \o Chars(call.arg[1])
    /\ ~ValidPage(call.arg[2]) => call.out[1] = ""

\* a URL without a scheme was validated against a page in capitals
C13_Witness ==
  /\ call.fn = "validate_url"
  /\ pc = "returned"
  /\ call.arg[1] = "f.org"
  /\ call.arg[2].body = "FOUNDATION"
  /\ call.out[1] = "https://f.org"

\* the organisation crawl called the model, got a reply and returned
OrgReplied ==
  /\ entry = "org_script"
  /\ pc = "o_returned"
  /\ last.result = "extracted"

\* the reply of the organisation crawl's model call, fences removed, read
\* against the schema
OrgParse == Organization_model_validate_json(clean_markdown(Tokens(last.model.reply)))

\* C14: in the organisation crawl a reply that cannot be parsed into an
\* Organization yields the Organization with every field at its default, a
\* reply that parses with a missing or placeholder org_name yields the parsed
\* Organization, and run_pipeline returns it as a mapping in both cases.
C14_OrganizationNotDiscarded ==
  OrgReplied =>
    /\ org_data # None
    /\ ~OrgParse.ok => org_data[1] = OrganizationDefault
    /\ (OrgParse.ok /\ PlaceholderName(OrgParse.organization.org_name))
         => org_data[1] = OrgParse.organization

\* a reply without org_name was kept with the field it did fill in
C14_Witness ==
  /\ OrgReplied
  /\ last.model.reply = ReplyOrgMission
  /\ org_data[1].org_name = "Not specified"
  /\ org_data[1].mission = "T"

\* the text a page fetch produced, if any: the extractor's text, or the raw
\* HTML where the extractor gave none
ProducedText(f) ==
  IF f.kind = "response" /\ f.status = 200
  THEN IF f.extracted # None /\ f.extracted[1] # "" THEN <<f.extracted[1]>>
       ELSE IF f.html # "" THEN <<f.html>>
       ELSE <<>>
  ELSE <<>>

OrgCrawlOver == pc \in {"o_returned", "o_raised"}

\* C15: in one organisation crawl the model is invoked at most once and only
\* after the page loop; its input is made of the texts of exactly the pages
\* whose fetch produced non-empty text, in page order (joined by the page
\* separator); when no page produced text the model is not invoked.
C15_OneModelCallOnAllTexts ==
  /\ [](entry = "org_script" =>
          /\ Len(combined_texts) <= 1
          /\ combined_texts # <<>> =>
               /\ OrgCrawlOver
               /\ page_texts # <<>>
               /\ SelectSeq(combined_texts[1], LAMBDA t : t # NewPage) = page_texts
               /\ Len(combined_texts[1]) = 2 * Len(page_texts) - 1)
  /\ [][(pc = "o_loop" /\ pc' = "o_loop") =>
          page_texts' = page_texts \o ProducedText(last'.fetch)]_vars

\* two pages gave text and the model was called once on both
C15_Witness ==
  /\ entry = "org_script"
  /\ pc = "o_returned"
  /\ Len(page_texts) = 2
  /\ combined_texts = << <<page_texts[1], NewPage, page_texts[2]>> >>

\* C16: when neither the root fetch nor the model call raises,
\* collect_organization_data returns None exactly when no candidate page
\* yielded text, and otherwise a mapping with the keys org_name, mission,
\* background, about and contact.
C16_NoneIffNoText ==
  (entry = "org_script" /\ pc = "o_returned") =>
    /\ (org_data = None) <=> (page_texts = <<>>)
    /\ org_data # None =>
         DOMAIN org_data[1] = {"org_name", "mission", "background", "about", "contact"}

\* no candidate page gave text, and None
\* was returned without a model call
C16_Witness ==
  /\ entry = "org_script"
  /\ pc = "o_returned"
  /\ page_texts = <<>>
  /\ org_data = None
  /\ combined_texts = <<>>

\* the Grant as extract_grant_info constructed it from the reply of the
\* latest iteration
Constructed == Grant_model_validate_json(clean_markdown(Tokens(last.model.reply))).grant

\* the latest iteration serialized its Grant into the result list
Serialized == GrantReplied /\ last.result = "added"

\* C20 as stated: the record serialized into the result list has every
\* field as the Grant was constructed from the model's JSON output.
C20_NoFieldChanged ==
  Serialized => grants[Len(grants)] = Constructed

\* C20, amended: between construction and serialization grant_url is set to
\* the URL of the page, and no other field is changed.
C20_OnlyGrantUrlChanged ==
  Serialized =>
    /\ grants[Len(grants)].grant_url = last.p
    /\ \A f \in DOMAIN GrantDefault \ {"grant_url"} :
         grants[Len(grants)][f] = Constructed[f]

\* the model had filled in grant_url and the page's URL replaced it
C20_Witness ==
  /\ Serialized
  /\ last.model.reply = ReplyWithUrl
  /\ Constructed.grant_url = "http://m"
  /\ grants[Len(grants)].grant_url = last.p

\* both deadline tests have been applied to one proposal_deadline
DeadlineTested == call.fn = "deadline" /\ pc = "returned"

\* C17: for every deadline string the grant writer's is_deadline_expired
\* treats a grant as expired exactly when the collector would exclude it,
\* that is exactly when the deadline contains "closed" in any letter case.
C17_ExpiredIffClosed ==
  DeadlineTested =>
    /\ call.out[1].collector <=> HasClosedAnyCase(call.arg[1])
    /\ call.out[1].writer <=> call.out[1].collector

\* C18: for every JSON document, the model response made of that document
\* inside a fence of three grave accents, with or without "json", is parsed
\* by each of the three model callers to the same result (same record, same
\* discard) as the bare document.
C18_FencedParsesAsBare ==
  (call.fn \in Parsers /\ pc = "returned") =>
    call.out[1].fenced = call.out[1].bare

\* a grant document inside a json fence gave the record the bare one gives
C18_Witness ==
  /\ call.fn = "extract_grant_info"
  /\ pc = "returned"
  /\ call.arg[2] = "fence_json"
  /\ call.out[1].bare # None
  /\ call.out[1].fenced = call.out[1].bare

\* C19: for a page fetched with status 200, get_html_content_and_extract_text
\* returns the extractor's text when it is non-empty and the raw HTML as the
\* text otherwise; for any other status, a timeout or a request error it
\* returns (None, None).
C19_TextOrHtmlOrNothing ==
  (call.fn = "get_html_content_and_extract_text" /\ pc = "returned") =>
    IF call.arg[1].kind = "response" /\ call.arg[1].status = 200
    THEN /\ call.out[1].html = <<call.arg[1].html>>
         /\ call.out[1].text =
              IF call.arg[1].extracted # None /\ call.arg[1].extracted[1] # ""
              THEN call.arg[1].extracted
              ELSE <<call.arg[1].html>>
    ELSE call.out[1] = [html |-> None, text |-> None]

\* the extractor gave nothing for a page with HTML and the HTML came back as
\* the text
C19_Witness ==
  /\ call.fn = "get_html_content_and_extract_text"
  /\ pc = "returned"
  /\ call.arg[1].status = 200
  /\ call.arg[1].extracted = None
  /\ call.out[1].text = <<"<p>">>

\* the grant loop has run at least one iteration and stands between two
GrantIterated == pc = "g_loop" /\ last # NoLast

\* C21: in a grant crawl the per-page loop issues at most one content fetch
\* per candidate page and at most one model call per iteration, the model is
\* called only on a page whose fetch returned status 200 with non-empty
\* text, and a page skipped for a non-http URL, a failed fetch or a non-200
\* status never reaches the model.
C21_OneFetchThenOneCall ==
  pc = "g_loop" =>
    /\ Len(fetched) <= idx - 1
    /\ \A i, j \in 1..Len(fetched) : fetched[i] = fetched[j] => i = j
    /\ GrantIterated =>
         /\ last.model # NoModel =>
              /\ fetched # <<>> /\ fetched[Len(fetched)] = last.p
              /\ last.fetch.kind = "response" /\ last.fetch.status = 200
              /\ ProducedText(last.fetch) # <<>>
         /\ (\/ ~BeginsWith(last.p, <<"h","t","t","p">>)
             \/ last.fetch.kind # "response"
             \/ last.fetch.status # 200) => last.model = NoModel

\* a second page answered 404 and the model was not called for it, after a
\* first page that was fetched and sent to the model
C21_Witness ==
  /\ GrantIterated
  /\ Len(fetched) = 2
  /\ last.fetch.status = 404
  /\ last.model = NoModel
  /\ last.before > 0

\* the moves of run_complete_pipeline from one step to the next, or to the
\* response
PipelineOrder ==
  { <<"step1", "step2">>, <<"step2", "describe">>, <<"describe", "metadata">>,
    <<"metadata", "responded">>,
    <<"step1", "responded">>, <<"step2", "responded">>, <<"describe", "responded">> }

\* one step of the complete pipeline: it follows the order, touches only its
\* own result, ends the request when it raises, and step 2 without
\* include_org_data calls nothing (so it cannot raise) and leaves null
PipelineStep ==
  /\ <<pc, pc'>> \in PipelineOrder
  /\ grants_data' # grants_data => pc = "step1"
  /\ org_data' # org_data => pc = "step2"
  /\ description' # description => pc = "describe"
  /\ metadata' # metadata => pc = "metadata"
  /\ exc' # exc => (pc' = "responded" /\ status' = 500)
  /\ (pc = "step2" /\ ~include_org_data') =>
       (org_data' = None /\ exc' = exc /\ pc' = "describe")

\* C22: the complete pipeline runs grant collection, organization
\* collection, description generation and metadata generation in this order,
\* each after the previous one returned; no later step runs after a step
\* raised; with include_org_data false organization collection is not
\* invoked and organization_data in the response is null.
C22_StepsInOrder ==
  /\ [][entry = "pipeline_endpoint" => PipelineStep]_vars
  /\ [](entry = "pipeline_endpoint" =>
          /\ (metadata # None => description # None)
          /\ (description # None => pc \in {"metadata", "responded"})
          /\ (org_data # None => pc \in {"describe", "metadata", "responded"})
          /\ (exc # "none" =>
                (pc = "responded" /\ description = None /\ metadata = None))
          /\ ((pc = "responded" /\ ~include_org_data) => org_data = None))

\* a request without include_org_data was answered with all of grants,
\* description and metadata and with null organization_data
C22_Witness ==
  /\ entry = "pipeline_endpoint"
  /\ pc = "responded"
  /\ status = 200
  /\ ~include_org_data
  /\ org_data = None
  /\ grants_data # <<>>
  /\ description # None
  /\ metadata # None

\* the process node has just run: validated holds its validate_url calls
Processed == entry = "find_url" /\ pc = "invoke" /\ node = "decide"

\* the URLs the process node extracted from the model's reply, in order
Extracted ==
  IF state.messages # <<>> /\ state.messages[1].is_str
  THEN ExtractUrls(state.messages[1].words)
  ELSE <<>>

\* validate_url accepted the URL of the call
Accepted(c) == c.validated_url # ""

\* the last validate_url call of the process node accepted its URL
LastAccepted == validated # <<>> /\ Accepted(validated[Len(validated)])

\* the process node validated the extracted URLs in their order and made
\* no call after the first one that validate_url accepted
ValidatedInOrder ==
  /\ Len(validated) <= Len(Extracted)
  /\ \A i \in 1..Len(validated) : validated[i].url = Extracted[i]
  /\ \A i \in 1..(Len(validated) - 1) : ~Accepted(validated[i])

\* once a URL is the result the graph ends without another search
EndsOnUrl ==
  (Processed /\ state.url # None) => (node' = "END" /\ searches' = searches)

\* C23 as stated: the process node validates the extracted URLs in their
\* order and stops at the first one validate_url accepts; that URL, as it
\* was extracted, becomes the result, no later URL is validated, the graph
\* ends without another search, and no URL is reported unless validate_url
\* accepted it.
C23_AcceptedUrlIsResult ==
  /\ [][EndsOnUrl]_vars
  /\ [](Processed =>
          /\ ValidatedInOrder
          /\ LastAccepted <=> state.url # None
          /\ LastAccepted => state.url = <<validated[Len(validated)].url>>)
  /\ []((FindUrlReturned /\ call.out[1].url # None) =>
          /\ LastAccepted
          /\ call.out[1].url = <<validated[Len(validated)].url>>)

\* C23, amended: as above, with the result being what validate_url returned
\* for the accepted URL: the URL itself when it begins with "http://" or
\* "https://", and otherwise the URL prefixed with "https://".
C23_ReturnedUrlIsResult ==
  /\ [][EndsOnUrl]_vars
  /\ [](Processed =>
          /\ ValidatedInOrder
          /\ LastAccepted <=> state.url # None
          /\ LastAccepted =>
               /\ state.url = <<validated[Len(validated)].validated_url>>
               /\ state.url = <<AddProtocol(validated[Len(validated)].url)>>)
  /\ []((FindUrlReturned /\ call.out[1].url # None) =>
          /\ LastAccepted
          /\ call.out[1].url = <<validated[Len(validated)].validated_url>>)

\* the first URL of the reply was rejected, the second accepted and
\* reported, and find_url returned after one search
C23_Witness ==
  /\ FindUrlReturned
  /\ Len(validated) = 2
  /\ ~Accepted(validated[1])
  /\ call.out[1].url = <<validated[2].url>>
  /\ searches = 1

\* C24: when the search call or the model call raises inside the search
\* node, error is set to a message beginning "Search error:", attempts is set
\* to max_attempts, the process node validates no URL, no further search is
\* made, and the result has success false and url None.
C24_SearchRaiseStops ==
  /\ [][search_raised => searches' = searches]_vars
  /\ [][(search_raised /\ node = "decide") => node' = "END"]_vars
  /\ [](search_raised =>
          /\ state.error # None
          /\ BeginsWith(state.error[1],
                        <<"S","e","a","r","c","h"," ","e","r","r","o","r",":">>)
          /\ state.attempts = state.max_attempts
          /\ state.url = None
          /\ node \in {"process", "decide", "END"}
          /\ node \in {"decide", "END"} => validated = <<>>
          /\ FindUrlReturned =>
               /\ ~call.out[1].success
               /\ call.out[1].url = None
               /\ call.out[1].error = state.error)

\* the second search raised after a first reply without an acceptable URL,
\* and find_url returned the failure
C24_Witness ==
  /\ FindUrlReturned
  /\ search_raised
  /\ searches = 2
  /\ state.attempts = 2
  /\ ~call.out[1].success

\* scrape_site has returned and the loop has not started: anchors still
\* holds the hrefs of the root page
Scraped == pc \in {"g_loop", "o_loop"} /\ idx = 1

\* the characters of the URL the href l is normalized to against the root
Normalized(l) ==
  IF BeginsWith(l, <<"/">>) THEN RootStem \o Chars(l)
  ELSE IF ~BeginsWith(l, <<"h","t","t","p">>) THEN (RootStem \o <<"/">>) \o Chars(l)
  ELSE Chars(l)

\* C25: every URL of the candidate list scrape_site returns, other than the
\* root URL, is the normalized form of an anchor href that, lower-cased and
\* before normalization, contains a keyword of the collector; anchors
\* without a keyword contribute no candidate, also when the root URL itself
\* contains a keyword.
C25_CandidatesFromKeywordHrefs ==
  Scraped =>
    /\ \A i \in 1..Len(pages) :
         pages[i] # foundation_url =>
           \E k \in 1..Len(anchors) :
             KeywordHref(anchors[k]) /\ Chars(pages[i]) = Normalized(anchors[k])
    /\ (\A k \in 1..Len(anchors) : ~KeywordHref(anchors[k]))
         => pages = <<foundation_url>>

\* on a root that contains the keyword "about" an href without a keyword
\* gave no candidate while a keyword href next to it gave one
C25_Witness ==
  /\ Scraped
  /\ foundation_url = RootAbout
  /\ anchors = <<"#top", "Apply">>
  /\ Len(pages) = 2

====
